---- MODULE Spec2Model ----
(***************************************************************************)
(* Verification model of the Conway GitHub warning backend                 *)
(* (src/backend/app).  Time is counted in whole minutes.                   *)
(*                                                                         *)
(* Part 1: EcosystemCorrelator (services/correlator.py).                   *)
(* Part 2: the incident store (incidents.py, db.py) and the construction   *)
(*         of incident ids by every emission path.                         *)
(* Part 3: the poll cycle and its fetch budget (poll_events.py,            *)
(*         signals/workflow_exfiltration.py).                              *)
(* Part 4: the producers and workers around the store, the broadcaster     *)
(*         and the two queues (check_runs.py, replay/fixtures.py,          *)
(*         services/signal_pipeline.py, summary_queue.py,                  *)
(*         services/osv_enrichment.py), a step per awaited call.           *)
(* Part 5: IncidentBroadcaster and its subscribers (sse.py).               *)
(* Part 6: RunLogFetcher, its token bucket and cache                       *)
(*         (services/run_logs.py); its clock counts seconds.               *)
(* Part 7: the analysis of workflow texts by the two detectors             *)
(*         (signals/workflow_exfiltration.py), texts as lines of tokens.   *)
(* Part 8: NpmAuthTokenExpiredPlugin (plugins/npm_auth_token_expired.py),  *)
(*         logs as lines of segments.                                      *)
(* Part 9: the two queues and their workers on their own, with queues of   *)
(*         a small maxsize, the summary built from the reply of the LLM,   *)
(*         and the awaited calls of a worker raising (summary_queue.py,    *)
(*         services/osv_enrichment.py).                                    *)
(* Part 10: the retry loop of GitHubClient (github.py); its delays count   *)
(*         quarter seconds.                                                *)
(* Part 11: RepoScheduler (repos.py) under a clock that never goes back.   *)
(* Part 12: add_recent_repo (poll_events.py) called until the buffer has   *)
(*         overflowed more than once.                                      *)
(* Part 13: derive_scope, derive_surface and derive_actor                  *)
(*         (incident_fields.py) applied to drawn arguments.                *)
(* Further drivers of the earlier parts: every form of occurred_at handed  *)
(* to ingest (SpecParse), two tasks calling the signal pipeline on the     *)
(* shared correlator (SpecConcurrent), the writers of the incident columns *)
(* (SpecColumns), and a fetcher whose cached lists are followed            *)
(* (SpecPartial).                                                          *)
(***************************************************************************)
EXTENDS Integers, Sequences, FiniteSets, TLC

VARIABLES
    now,          \* the clock read by now_fn / _now_utc (minutes)
    cfg,          \* EcosystemCorrelator fields window, min_repos, min_owners, cooldown
    entries,      \* EcosystemCorrelator._entries : signature -> list of CorrelatorEntry
    last_emit,    \* EcosystemCorrelator._last_emit : signature -> time, NoEmit when absent
    ret,          \* value returned by the latest ingest call (NoBundle = None),
                  \* Raised when the call raised
    call,         \* history: arguments of the latest ingest call, _last_emit[signature]
                  \* as the call found it (prev_emit), the clock when it returned (at)
    emits,        \* history: signature -> clock values at which ingest returned a bundle
    results,      \* history: for every ingest call so far, whether it returned a bundle
    script,       \* which driver feeds the correlator: "free" or "S1"
    incidents,    \* rows of table incidents (db.py SCHEMA_SQL)
    uuid_seq,     \* number of uuid.uuid4() values drawn so far
    ins,          \* history: the latest insert_incident call (argument, result, rows
                  \* before and after)
    run_inserts,  \* history: workflow run id -> results of the inserts of its incidents
    built,        \* history: the incidents with a dedupe_key built so far, by path
    MAX_WORKFLOW_FETCHES_PER_CYCLE,   \* settings value (config.py)
    budget,       \* FetchBudget.remaining of the running poll cycle
    forge_calls,  \* history: Forge calls made in the running poll cycle, by method
    seen_events,  \* event_id of the rows of table events
    poll,         \* poll_events_loop: position and locals
    published,    \* history: cards handed to IncidentBroadcaster.publish
    summary_q,    \* SummaryQueue._queue
    enrichment_q, \* EnrichmentQueue._queue
    fan,          \* history: fan-out steps done, by incident, producer and step
    task,         \* check_runs_loop, run_replay_fixtures and the two workers:
                  \* position and locals of each
    sse,          \* IncidentBroadcaster: _subscribers, the queue of every
                  \* subscribe generator, and what each consumer was handed
    det,          \* a push event with the workflow texts the Forge serves for it,
                  \* and what the two workflow detectors returned for it
    fetcher,      \* RunLogFetcher: its fields, the clock it reads (seconds), the
                  \* position of the running fetch_run_logs call and the
                  \* history of its Forge calls and results
    plug,         \* a log text and what NpmAuthTokenExpiredPlugin.match returned
                  \* for it
    RECENT_REPOS, \* poll_events.RECENT_REPOS
    wk,           \* the maxsize the two queues were constructed with, whether
                  \* settings.ANTHROPIC_API_KEY is set, and history: the number
                  \* of enqueue calls made on the queues directly and the latest
    client,       \* GitHubClient: the running get_json / get_text / get_bytes
                  \* call, its locals, how it ended, and which raise_for_status
                  \* the installed httpx has
    sched,        \* a RepoScheduler: its fields, the clock time.time() reads,
                  \* the latest next_batch call and its result, and history:
                  \* for each repo the times of the calls that returned it
    recent_call,  \* history: the argument of the latest add_recent_repo call
                  \* and RECENT_REPOS as the call found it
    fields        \* a kind, a tag list and an evidence, and what derive_scope,
                  \* derive_surface and derive_actor returned for them

corrVars == <<now, cfg, entries, last_emit, ret, call, emits, results, script>>

storeVars == <<incidents, uuid_seq, ins, run_inserts, built>>

pollVars == <<task, MAX_WORKFLOW_FETCHES_PER_CYCLE, budget, forge_calls, seen_events, poll>>

fanVars == <<published, summary_q, enrichment_q, fan>>

\* the variables of Parts 1 to 4
coreVars == <<corrVars, storeVars, pollVars, fanVars>>

\* the variables of Parts 8 and later
lateVars == <<plug, RECENT_REPOS, wk, client, sched, recent_call, fields>>

\* the variables of the later parts, which no step of Parts 1 to 4 touches
sideVars == <<sse, fetcher, det, lateVars>>

vars == <<coreVars, sideVars>>

----------------------------------------------------------------------------
(* Bounds of the exploration *)

MaxNow == 3        \* the free driver stops advancing the clock here
MaxCalls == 3      \* ingest calls made by the free driver
MaxSkew == 1       \* clock advance between the two now() reads of one ingest
MaxInserts == 3    \* insert_incident calls explored against the store
MaxSubscribers == 2   \* subscribe generators opened
MaxPublished == 4     \* publish calls explored
MaxTicks == 3         \* advances of the clock read by RunLogFetcher._allow
MaxFetches == 4       \* fetch_run_logs calls explored
MaxJobs == 2          \* jobs in a list-jobs response
MaxLines == 2         \* lines of a workflow text drawn freely
QueueMaxsize == 2     \* capacity of a subscriber queue: asyncio.Queue(maxsize=100)
                      \* in sse.py, scaled down so that a full queue is explored

----------------------------------------------------------------------------
(* Inputs *)

Signatures == {"npm_auth_token_expired", "registry_5xx"}

\* (repo_full_name, owner) pairs handed to ingest by the free driver
Pairs ==
    { [repo |-> "org-a/repo1", owner |-> "org-a"],
      [repo |-> "org-a/repo4", owner |-> "org-a"],
      [repo |-> "org-b/repo2", owner |-> "org-b"] }

\* constructor arguments explored by the free driver
FreeConfigs ==
    { [window |-> 2, min_repos |-> 2, min_owners |-> 2, cooldown |-> 2] }

\* constructor arguments of scenario S1 (tests/test_correlator.py, config.py defaults)
S1Config == [window |-> 60, min_repos |-> 5, min_owners |-> 3, cooldown |-> 30]

S1Pairs ==
    << [repo |-> "org-a/repo1", owner |-> "org-a"],
       [repo |-> "org-b/repo2", owner |-> "org-b"],
       [repo |-> "org-c/repo3", owner |-> "org-c"],
       [repo |-> "org-a/repo4", owner |-> "org-a"],
       [repo |-> "org-b/repo5", owner |-> "org-b"] >>

S1LatePairs ==
    { [repo |-> "org-c/repo6", owner |-> "org-c"],
      [repo |-> "org-a/repo1", owner |-> "org-a"] }

\* workflow run ids returned by list_workflow_runs
RunIds == {1001, 1002}

\* push events: repo.name, payload.head / payload.after, changed workflow paths
EventRepos == {"demo/repo"}
HeadShas == {"deadbeef"}
WorkflowPaths == {".github/workflows/ghostaction.yml"}

\* occurred_at : Optional[str].  kind "none" is None or "", "iso" is a
\* parseable ISO-8601 instant t, "bad" is text fromisoformat rejects.
OccurredAt(ts) ==
    { [kind |-> "none", t |-> 0], [kind |-> "bad", t |-> 0] }
        \cup { [kind |-> "iso", t |-> t] : t \in ts }

\* every form of occurred_at: also the empty string, an instant with the Z
\* suffix ("iso" carries an offset such as +00:00) and an ISO date-time
\* without any timezone, read at its face value t
OccurredAtAny(ts) ==
    OccurredAt(ts) \cup {[kind |-> "empty", t |-> 0]}
        \cup { [kind |-> k, t |-> t] : k \in {"z", "naive"}, t \in ts }

----------------------------------------------------------------------------
(* services/correlator.py *)

NoEmit == -1
NoBundle == [bundle |-> FALSE]
\* ingest left by an exception instead of returning
Raised == [bundle |-> FALSE, raised |-> "TypeError"]
NoCall == [signature |-> "", repo_full_name |-> "", owner |-> "", ts |-> 0,
           prev_emit |-> NoEmit, at |-> 0]

\* _parse_time: a missing or unparseable value becomes the current clock value
parse_time(value, clock) ==
    IF value.kind \in {"iso", "z", "naive"} THEN value.t ELSE clock

\* tzinfo of the datetime _parse_time returns: _now_utc() is aware,
\* fromisoformat gives an aware value only for text with an offset
tz_aware(value) == value.kind # "naive"

\* aware: whether occurred_at carries a tzinfo
CorrelatorEntry(repo_full_name, owner, occurred_at, aware) ==
    [repo_full_name |-> repo_full_name, owner |-> owner, occurred_at |-> occurred_at,
     aware |-> aware]

\* e.occurred_at >= cutoff with cutoff aware: comparing an offset-naive with an
\* offset-aware datetime raises TypeError
compare_raises(es) == \E i \in DOMAIN es : ~es[i].aware

Prune_all(es, cutoff) == << >>

\* entries[:] = [e for e in entries if e.occurred_at >= cutoff]
Prune(es, cutoff) ==
    SelectSeq(es, LAMBDA e : e.occurred_at >= cutoff)

unique_repos(es) == { es[i].repo_full_name : i \in DOMAIN es }
unique_owners(es) == { es[i].owner : i \in DOMAIN es }

BelowThreshold_repos_only(es, c) ==
    Cardinality(unique_repos(es)) < c.min_repos

\* if len(unique_repos) < self.min_repos or len(unique_owners) < self.min_owners
BelowThreshold(es, c) ==
    \/ Cardinality(unique_repos(es)) < c.min_repos
    \/ Cardinality(unique_owners(es)) < c.min_owners

InCooldown_short(last, clock, c) ==
    last # NoEmit /\ (clock - last) < c.cooldown - 1

\* if last_emit and (now - last_emit) < self.cooldown
InCooldown(last, clock, c) ==
    last # NoEmit /\ (clock - last) < c.cooldown

Bucket_coarse(clock, c) == clock \div (2 * c.cooldown)

\* int(now.timestamp() // self.cooldown.total_seconds())
Bucket(clock, c) == clock \div c.cooldown

\* _build_incident: the fields of the bundle the claims read
build_incident(signature, es, clock, c) ==
    [ bundle |-> TRUE,
      signature |-> signature,
      created_at |-> clock,
      affected_repos_count |-> Cardinality(unique_repos(es)),
      unique_owners_count |-> Cardinality(unique_owners(es)),
      dedupe_key |-> "ecosystem:" \o signature \o ":" \o ToString(Bucket(clock, c)) ]

record_emit_lost(last, signature, clock) == last

\* self._last_emit[signature] = now
record_emit(last, signature, clock) == [last EXCEPT ![signature] = clock]

\* EcosystemCorrelator.ingest.  skew is the clock advance between the read
\* that computes cutoff and the read that decides the cooldown.  When the
\* pruning comparison raises, nothing has been assigned yet.
ingest(signature, repo_full_name, owner, occurred_at, skew) ==
    LET ts == parse_time(occurred_at, now)
        cutoff == now - cfg.window
        es == Append(Prune(entries[signature], cutoff),
                     CorrelatorEntry(repo_full_name, owner, ts, tz_aware(occurred_at)))
        clock == now + skew
        emit == ~BelowThreshold(es, cfg) /\ ~InCooldown(last_emit[signature], clock, cfg)
        called == [signature |-> signature, repo_full_name |-> repo_full_name,
                   owner |-> owner, ts |-> ts,
                   prev_emit |-> last_emit[signature], at |-> clock]
    IN  IF compare_raises(entries[signature])
        THEN /\ skew = 0
             /\ ret' = Raised
             /\ call' = called
             /\ results' = Append(results, FALSE)
             /\ UNCHANGED <<now, entries, last_emit, emits, cfg, script, sideVars>>
        ELSE /\ BelowThreshold(es, cfg) => skew = 0
             /\ entries' = [entries EXCEPT ![signature] = es]
             /\ now' = clock
             /\ call' = called
             /\ last_emit' = IF emit THEN record_emit(last_emit, signature, clock) ELSE last_emit
             /\ ret' = IF emit THEN build_incident(signature, es, clock, cfg) ELSE NoBundle
             /\ emits' = IF emit THEN [emits EXCEPT ![signature] = Append(@, clock)] ELSE emits
             /\ results' = Append(results, emit)
             /\ UNCHANGED <<cfg, script, sideVars>>


----------------------------------------------------------------------------
(* Incident ids.  SHA-1 is kept symbolic, one digest per key, except for the
   key of the replay example, whose real digest and derived run id are
   written out.  run_id is an INTEGER column; the model writes the integers
   in decimal text, because the 63-bit ids exceed 32-bit integers. *)

NULL == "NULL"

ReplayKey == "personalized_exfil:demo/repo:deadbeef:.github/workflows/ghostaction.yml"

\* hashlib.sha1(key.encode("utf-8")).hexdigest()
Sha1Hex(key) ==
    IF key = ReplayKey THEN "64ab3cd24b140534fc5201af1b3528b228557f18"
    ELSE "sha1(" \o key \o ")"

\* _stable_run_id: minus the first 8 digest bytes modulo 2**63
stable_run_id(key) ==
    IF key = ReplayKey THEN "-7253958498710717748"
    ELSE "-sha1_63(" \o key \o ")"

\* int("deadbeef", 16) % (2**31), digit by digit: the bits above 2**31 are
\* dropped before each shift
HexDigits_deadbeef == <<13, 14, 10, 13, 11, 14, 14, 15>>

RECURSIVE HexMod2p31(_, _)
HexMod2p31(digits, acc) ==
    IF digits = << >> THEN acc
    ELSE HexMod2p31(Tail(digits), (acc % 134217728) * 16 + Head(digits))

Incident(incident_id, kind, run_id, dedupe_key, mentions, path) ==
    [ incident_id |-> incident_id, kind |-> kind, run_id |-> run_id,
      dedupe_key |-> dedupe_key, mentions |-> mentions, path |-> path ]

\* check_runs.run_to_incident: a fresh random incident_id, no dedupe_key
run_to_incident(run_id, uuid) ==
    Incident("uuid4-" \o ToString(uuid), "workflow_failure", ToString(run_id),
             NULL, {}, "run_to_incident")

\* detect_ghostaction_risk, the incident it builds
ghostaction_incident(repo_full_name, head_sha) ==
    LET dedupe_key == "ghostaction:" \o repo_full_name \o ":" \o head_sha
    IN  Incident(Sha1Hex(dedupe_key), "ghostaction_risk", stable_run_id(dedupe_key),
                 dedupe_key, {}, "detect_ghostaction_risk")

\* detect_personalized_exfiltration, the incident it builds for one path
personalized_incident(repo_full_name, head_sha, path) ==
    LET dedupe_key == "personalized_exfil:" \o repo_full_name \o ":" \o head_sha
                          \o ":" \o path
    IN  Incident(Sha1Hex(dedupe_key), "personalized_secret_exfiltration",
                 stable_run_id(dedupe_key), dedupe_key, {},
                 "detect_personalized_exfiltration")

\* the words of the OSV test found in a signature
SignatureMentions(signature) ==
    IF signature = "npm_auth_token_expired" THEN {"npm"} ELSE {}

\* EcosystemCorrelator._build_incident, the incident of the bundle
ecosystem_incident(bundle) ==
    Incident(Sha1Hex(bundle.dedupe_key), "ecosystem_incident",
             stable_run_id(bundle.dedupe_key), bundle.dedupe_key,
             SignatureMentions(bundle.signature), "_build_incident")

\* replay/fixtures._emit_personalized_exfiltration_example
replay_example_incident ==
    Incident(Sha1Hex(ReplayKey), "personalized_secret_exfiltration",
             "-" \o ToString(HexMod2p31(HexDigits_deadbeef, 0)), ReplayKey, {},
             "_emit_personalized_exfiltration_example")

----------------------------------------------------------------------------
(* incidents.py, db.py *)

(* incident_fields.py.  A tag and a login are sequences of words, so that  *)
(* lower(), "in" and endswith() have something to work on.                 *)

\* str.lower on a word
lower(word) ==
    CASE word = "NPM" -> "npm"
      [] word = "Dependency" -> "dependency"
      [] word = "[BOT]" -> "[bot]"
      [] word = "Bot" -> "bot"
      [] word = "User" -> "user"
      [] word = "Organization" -> "organization"
      [] OTHER -> word

\* " ".join(tags).lower(), as the set of its words
tag_blob(tags) ==
    UNION { { lower(tags[i][j]) : j \in DOMAIN tags[i] } : i \in DOMAIN tags }

\* derive_scope
derive_scope(kind) ==
    IF kind = "ecosystem_incident" THEN "ecosystem" ELSE "repo"

derive_surface_tags_first(kind, tags) ==
    IF "npm" \in tag_blob(tags) \/ "dependency" \in tag_blob(tags) THEN "dependencies"
    ELSE IF kind \in {"ghostaction_risk", "personalized_secret_exfiltration"}
    THEN "credentials"
    ELSE IF kind = "ecosystem_incident" THEN "dependencies"
    ELSE IF kind = "workflow_failure" THEN "ops"
    ELSE "automation"

\* derive_surface
derive_surface(kind, tags) ==
    IF kind \in {"ghostaction_risk", "personalized_secret_exfiltration"}
    THEN "credentials"
    ELSE IF \/ kind = "ecosystem_incident"
            \/ "npm" \in tag_blob(tags)
            \/ "dependency" \in tag_blob(tags)
    THEN "dependencies"
    ELSE IF kind = "workflow_failure" THEN "ops"
    ELSE "automation"

\* an evidence dict: the keys derive_actor reads.  A login is << >> when its
\* key is absent, None or ""; actor_context is the type it holds under
\* "type", NULL when there is none
Evidence(actor, actor_login, actor_context) ==
    [ actor |-> actor, actor_login |-> actor_login, actor_context |-> actor_context ]

\* x or y, of logins
Or(x, y) == IF x = << >> THEN y ELSE x

\* derive_actor
derive_actor(evidence) ==
    LET login == Or(evidence.actor, evidence.actor_login)
        actor_type == IF evidence.actor_context = NULL THEN NULL
                      ELSE lower(evidence.actor_context)
    IN  [ login |-> Or(login, <<"unknown">>),
          type |-> IF actor_type \in {"user", "bot", "org"} THEN actor_type ELSE "unknown",
          is_bot |-> \/ login # << >> /\ lower(login[Len(login)]) = "[bot]"
                     \/ actor_type = "bot" ]

\* the tags of an incident of the model, one tag per word it mentions
TagsOf(inc) ==
    SelectSeq(<< <<"npm">>, <<"dependency">>, <<"supply">> >>,
              LAMBDA tag : tag[1] \in inc.mentions)

\* the evidence of an incident of the model: the replay example names its
\* actor; the evidence of a failed run and of a bundle names none, and the
\* login a detector copies from the push event is not followed
EvidenceOf(inc) ==
    IF inc.path = "_emit_personalized_exfiltration_example"
    THEN Evidence(<<"demo-user">>, << >>, NULL)
    ELSE Evidence(<< >>, << >>, NULL)

\* the columns of a stored row the model follows: insert_incident derives
\* scope, surface and actor_json and leaves the columns of the summary NULL
Row(inc) ==
    [ incident_id |-> inc.incident_id, kind |-> inc.kind, run_id |-> inc.run_id,
      dedupe_key |-> inc.dedupe_key, mentions |-> inc.mentions,
      summary |-> NULL, enrichment |-> NULL,
      why_this_fired |-> NULL, risk_trajectory |-> NULL, risk_trajectory_reason |-> NULL,
      scope |-> derive_scope(inc.kind),
      surface |-> derive_surface(inc.kind, TagsOf(inc)),
      actor |-> derive_actor(EvidenceOf(inc)) ]

Conflicts_pk_only(rows, inc) ==
    \E r \in rows : r.incident_id = inc.incident_id

\* incident_id TEXT PRIMARY KEY, run_id INTEGER NOT NULL UNIQUE,
\* dedupe_key TEXT UNIQUE (NULLs never conflict)
Conflicts(rows, inc) ==
    \E r \in rows :
        \/ r.incident_id = inc.incident_id
        \/ r.run_id = inc.run_id
        \/ inc.dedupe_key # NULL /\ r.dedupe_key = inc.dedupe_key

\* INSERT OR IGNORE; nothing is written when the store raises
insert_rows(rows, inc, db_error) ==
    IF db_error \/ Conflicts(rows, inc) THEN rows ELSE rows \cup {Row(inc)}

insert_result_rowcount_ignored(rows, inc, db_error) ==
    ~db_error

insert_result_error_as_inserted(rows, inc, db_error) ==
    db_error \/ insert_rows(rows, inc, db_error) # rows

\* insert_incident returns (cur.rowcount or 0) > 0; an exception raised by
\* the store (db_error) is swallowed and False is returned
insert_result(rows, inc, db_error) ==
    ~db_error /\ insert_rows(rows, inc, db_error) # rows

\* insert_incident as a step: the store and the history of the call
insert_incident(inc, db_error) ==
    /\ incidents' = insert_rows(incidents, inc, db_error)
    /\ ins' = [ inc |-> inc, ok |-> insert_result(incidents, inc, db_error),
                db_error |-> db_error, before |-> incidents,
                after |-> insert_rows(incidents, inc, db_error) ]

NoInsert ==
    [ inc |-> Incident("", "", "", NULL, {}, ""), ok |-> FALSE, db_error |-> FALSE,
      before |-> {}, after |-> {} ]

StoreEmpty ==
    /\ incidents = {}
    /\ uuid_seq = 0
    /\ ins = NoInsert
    /\ run_inserts = [r \in RunIds |-> << >>]
    /\ built = {}

\* the producer that runs beside the workers
Active(producer) == script = producer

\* the correlator as constructed by main.py, nothing ingested
CorrIdle ==
    /\ now = 0
    /\ cfg = S1Config
    /\ entries = [s \in Signatures |-> << >>]
    /\ last_emit = [s \in Signatures |-> NoEmit]
    /\ ret = NoBundle
    /\ call = NoCall
    /\ emits = [s \in Signatures |-> << >>]
    /\ results = << >>

----------------------------------------------------------------------------
(* Fan-out targets: sse.py, summary_queue.py, services/osv_enrichment.py *)

SummaryQueueMaxsize == 1000
EnrichmentQueueMaxsize == 500

\* asyncio.Queue.put_nowait, the item dropped when the queue is full
enqueue_unbounded(q, incident_id, maxsize) == Append(q, incident_id)

enqueue_at_front(q, incident_id, maxsize) ==
    IF Len(q) >= maxsize THEN q ELSE <<incident_id>> \o q

enqueue(q, incident_id, maxsize) ==
    IF Len(q) >= maxsize THEN q ELSE Append(q, incident_id)

\* a card as a subscriber sees it: the incident it is about and what it announces
Card(incident_id, event) ==
    [incident_id |-> incident_id, event |-> event, summary |-> NULL]

\* the card of the summary worker: the fetched incident with summary,
\* why_this_fired, risk_trajectory and risk_trajectory_reason set from the
\* summary it built
SummaryCard(incident_id, summary) ==
    [incident_id |-> incident_id, event |-> "summary", summary |-> summary]

\* one fan-out step done by producer "by" for an incident
Step(incident_id, by, step) == [incident_id |-> incident_id, by |-> by, step |-> step]

\* _is_osv_relevant: "npm" in signature or tags of an ecosystem incident, or
\* "npm" / "dependency" / "supply" in the tags
is_osv_relevant(inc) ==
    \/ inc.kind = "ecosystem_incident" /\ "npm" \in inc.mentions
    \/ inc.mentions \cap {"npm", "dependency", "supply"} # {}

\* what the Anthropic API may answer to _llm_summary: whether the call gave
\* status 200 with JSON text, and the keys of that JSON
LlmReplies ==
    [ http_error   |-> [json |-> FALSE, keys |-> {}],
      not_json     |-> [json |-> FALSE, keys |-> {}],
      missing_keys |-> [json |-> TRUE, keys |-> {"root_cause", "impact"}],
      complete     |-> [json |-> TRUE, keys |-> {"root_cause", "impact", "next_steps",
                                                 "why_this_fired"}] ]

llm_summary_any_json(reply) == IF LlmReplies[reply].json THEN reply ELSE NULL

\* _llm_summary: the parsed reply when it holds the three lists, else None
llm_summary(reply) ==
    IF /\ LlmReplies[reply].json
       /\ {"root_cause", "impact", "next_steps"} \subseteq LlmReplies[reply].keys
    THEN reply ELSE NULL

\* _build_summary: the summary of the LLM when the key is set and the call
\* succeeds, else the fixed fallback
build_summary(api_key, reply) ==
    IF api_key /\ llm_summary(reply) # NULL THEN llm_summary(reply) ELSE "fallback"

\* the keys of a stored summary; _llm_summary adds the trajectory and
\* why_this_fired to the reply
summary_keys(summary) ==
    IF summary = "fallback"
    THEN {"root_cause", "impact", "next_steps", "why_this_fired", "risk_trajectory",
          "risk_trajectory_reason"}
    ELSE IF summary \in DOMAIN LlmReplies
    THEN LlmReplies[summary].keys
            \cup {"why_this_fired", "risk_trajectory", "risk_trajectory_reason"}
    ELSE {}

\* summary.get(key) for the three values a summary carries beside its lists:
\* the fallback has fixed ones, _validate_why and _validate_trajectory put
\* the defaults where the reply of the LLM has none
summary_get(summary, key) ==
    LET llm == summary \in DOMAIN LlmReplies /\ key \in LlmReplies[summary].keys
    IN  CASE key = "why_this_fired" -> IF llm THEN "why (LLM)" ELSE ""
          [] key = "risk_trajectory" -> IF llm THEN "increasing" ELSE "stable"
          [] key = "risk_trajectory_reason" ->
                IF llm THEN "reason (LLM)"
                ELSE "Insufficient trend data; defaulting to stable."

set_summary_and_surface(rows, incident_id, summary) ==
    { IF r.incident_id = incident_id
      THEN [r EXCEPT !.summary = summary, !.surface = "automation"]
      ELSE r : r \in rows }

\* incidents.set_summary
set_summary(rows, incident_id, summary) ==
    { IF r.incident_id = incident_id
      THEN [r EXCEPT !.summary = summary,
                     !.why_this_fired = summary_get(summary, "why_this_fired"),
                     !.risk_trajectory = summary_get(summary, "risk_trajectory"),
                     !.risk_trajectory_reason = summary_get(summary, "risk_trajectory_reason")]
      ELSE r : r \in rows }

\* summary_queue._store_summary
store_summary(rows, incident_id, summary) ==
    { IF r.incident_id = incident_id THEN [r EXCEPT !.summary = summary] ELSE r : r \in rows }

\* incidents.set_enrichment
set_enrichment(rows, incident_id, status) ==
    { IF r.incident_id = incident_id THEN [r EXCEPT !.enrichment = status] ELSE r : r \in rows }

FanEmpty ==
    /\ published = {}
    /\ summary_q = << >>
    /\ enrichment_q = << >>
    /\ fan = {}

\* the subscribe generators that may be opened
Subscribers == 1 .. MaxSubscribers

\* IncidentBroadcaster.__init__: no subscriber; nothing published, no generator
\* started or closed.  queue[s] is the asyncio.Queue of generator s, received[s]
\* the items it has yielded to its consumer, cards are numbered by publish call
NoSubscribers ==
    [ subscribers |-> << >>,
      queue |-> [s \in Subscribers |-> << >>],
      received |-> [s \in Subscribers |-> << >>],
      started |-> {}, closed |-> {}, publish_count |-> 0 ]

\* workflow runs whose logs are asked for
LogRunIds == {1, 2, 3}

\* what fetch_run_logs last returned: result is "nil" (None) or "list", logs the
\* list (the positions in the list-jobs answer of the jobs whose log text it
\* holds), broke whether the loop over the jobs was left by break; hit,
\* denied, raised say why; tokens counts the _allow calls that granted a token
\* during the call; evicted is the key _cache_put dropped (0: none) and lru the
\* cached key that had gone unused longest when it did
NoFetch ==
    [ run_id |-> 0, result |-> "none", hit |-> FALSE, denied |-> FALSE, raised |-> FALSE,
      tokens |-> 0, evicted |-> 0, lru |-> 0, logs |-> << >>, broke |-> FALSE ]

\* RunLogFetcher.__init__.  cache lists the keys of _cache in OrderedDict order
\* and stored[r] is _cache[r] for a key r of it; job is the position of the job
\* the loop is at and results the local list of fetch_run_logs, all three
\* followed only when lists is set (the lists decide nothing in the fetcher),
\* and then partial holds the keys whose cached list was left by break;
\* api_calls holds the clock value of every Forge call issued, tokens counts the
\* tokens granted, used lists the run ids by their latest use (put or hit)
NewFetcher(per_minute, cache_size) ==
    [ per_minute |-> per_minute, cache_size |-> cache_size,
      timestamps |-> << >>, cache |-> << >>,
      clock |-> 0, ticks |-> 0, fetches |-> 0,
      pos |-> "idle", run_id |-> 0, jobs |-> << >>, call_tokens |-> 0,
      job |-> 0, results |-> << >>, stored |-> [r \in LogRunIds |-> << >>],
      lists |-> FALSE, partial |-> {},
      api_calls |-> << >>, tokens |-> 0, used |-> << >>, last |-> NoFetch ]

\* no push event analysed.  A push carries its changed workflow paths
\* (workflow_paths, in commit order), whether payload.before / payload.after are
\* present, the text served for each path at head (<< >>: none, the fetch failed
\* or was refused by the budget) and the workflow text read at the base ref
NoDetection ==
    [ push |-> [ workflow_paths |-> << >>, before |-> FALSE, after |-> FALSE,
                 text |-> [p \in {"ci.yml", "release.yml"} |-> << >>], base |-> << >> ],
      done |-> {}, ghostaction_risk |-> << >>, personalized |-> << >> ]

\* SummaryQueue() and EnrichmentQueue() as main.py constructs them, each named
\* by its worker; no API key in the environment
DefaultQueues ==
    [ maxsize |-> [summary_worker |-> SummaryQueueMaxsize,
                   osv_worker |-> EnrichmentQueueMaxsize],
      ANTHROPIC_API_KEY |-> FALSE,
      calls |-> 0,
      enq |-> [queue |-> "", incident_id |-> "", before |-> << >>] ]

\* nothing derived yet
NoFields ==
    [ kind |-> "", tags |-> << >>, evidence |-> Evidence(<< >>, << >>, NULL), done |-> FALSE,
      scope |-> NULL, surface |-> NULL, actor |-> derive_actor(Evidence(<< >>, << >>, NULL)) ]

\* add_recent_repo not called yet
NoRecentCall == [repo_full_name |-> NULL, before |-> << >>]

MaxInterval == 2      \* min_interval_seconds of the schedulers explored

\* the repo names handed to the scheduler
RepoNames == {"a/x", "b/y"}

\* RepoScheduler.__init__.  time.time() counts from 1970, so the clock starts
\* no earlier than min_interval past 0, the time last_checked.get(r, 0) gives
\* a repo never picked
NewScheduler(high_traffic, min_interval_seconds) ==
    [ high_traffic |-> SelectSeq(high_traffic, LAMBDA r : r \in RepoNames),
      queue |-> << >>, last_checked |-> {},
      min_interval |-> min_interval_seconds,
      time |-> MaxInterval, max_repos |-> 0, batch |-> << >>, batches |-> 0,
      returned |-> [r \in RepoNames |-> << >>] ]

\* GitHubClient with no request made.  httpx names the raise_for_status of
\* the installed library, which no file of the repository pins: it raises for
\* every status outside 2xx, or (older releases) for 4xx and 5xx only.
\* last is the outcome of the latest attempt, result how the call ended:
\* "returned" (the body of a 200), "raised" or "none" (the function ran off
\* its end and returned None)
NewClient(httpx) ==
    [ httpx |-> httpx, requests |-> 0, method |-> "", pos |-> "idle", attempts |-> 0,
      delay |-> 4, last |-> 0, sleep_s |-> 0, sleeps |-> 0, result |-> "" ]

\* no log handed to the plugin; match returns None (signature "") or a
\* SignalMatch, its confidence counted in hundredths
NoLog ==
    [ log_text |-> << >>, done |-> FALSE,
      match |-> [signature |-> "", confidence |-> 0, matched_line |-> << >>] ]

\* Parts 8 and later as constructed, nothing done
LateIdle ==
    /\ plug = NoLog
    /\ RECENT_REPOS = << >>
    /\ wk = DefaultQueues
    /\ client = NewClient("raises_non_2xx")
    /\ sched = NewScheduler(<< >>, 0)
    /\ recent_call = NoRecentCall
    /\ fields = NoFields

\* the later parts as constructed, nothing done
SideIdle ==
    /\ sse = NoSubscribers
    /\ det = NoDetection
    /\ fetcher = NewFetcher(20, 200)
    /\ LateIdle

----------------------------------------------------------------------------
(* poll_events.py and signals/workflow_exfiltration.py: one poll cycle, a step
   per awaited call *)

\* settings.MAX_WORKFLOW_FETCHES_PER_CYCLE: small values and the default
DefaultFetches == 5
FetchSettings == {0, 2, DefaultFetches}

ForgeMethods == {"get_commit", "get_contents", "get_user", "get_collaborator_permission"}

\* no Forge call made yet; "none" counts the helper calls that returned
\* without one because take() refused
NoCalls == [m \in ForgeMethods \cup {"none"} |-> 0]

WorkflowYml == ".github/workflows/ghostaction.yml"

\* events returned by list_global_events
PushWithCommits ==
    [ id |-> "e1", type |-> "PushEvent", repo |-> "demo/repo",
      commit_paths |-> <<WorkflowYml>>, head |-> "deadbeef",
      before |-> "abc123", after |-> "deadbeef", actor |-> TRUE ]

PushNoCommits ==
    [ id |-> "e2", type |-> "PushEvent", repo |-> "demo/repo",
      commit_paths |-> << >>, head |-> "deadbeef",
      before |-> "abc123", after |-> "deadbeef", actor |-> FALSE ]

WatchEvent ==
    [ id |-> "e3", type |-> "WatchEvent", repo |-> "demo/repo",
      commit_paths |-> << >>, head |-> NULL, before |-> NULL, after |-> NULL,
      actor |-> TRUE ]

EventBatches ==
    { <<PushWithCommits, WatchEvent>>, <<PushNoCommits>>, <<PushNoCommits, PushWithCommits>> }

EventIds == {"e1", "e2", "e3"}

\* data.get("files") of get_commit, filtered by _is_workflow_path; << >> also
\* stands for a failed fetch
CommitFiles == { << >>, <<WorkflowYml>> }

\* the number of workflow files listed by _list_workflow_files
MaxListed == 2

\* _get_workflow_text: nothing (failed fetch, no content), a text without
\* indicators, a text that sends secrets to an external URL
Texts == {"none", "benign", "exfil"}

NoEvent ==
    [ id |-> "", type |-> "", repo |-> "", commit_paths |-> << >>, head |-> NULL,
      before |-> NULL, after |-> NULL, actor |-> FALSE ]

NoIncident == Incident("", "", "", NULL, {}, "")

\* poll_events_loop asleep, before its first cycle.  calls is history: per
\* event_id, the insert_event calls that returned true and the calls of
\* add_recent_repo and of the two detectors; lost is history: the events of a
\* batch that a cycle ended by an exception left unhandled
Sleeping ==
    [ pc |-> "sleep", evs |-> << >>, todo |-> << >>, got |-> FALSE, known |-> 0,
      incs |-> << >>, inc |-> NoIncident,
      calls |-> [id \in EventIds |->
                   [ insert_event |-> 0, add_recent_repo |-> 0,
                     detect_ghostaction_risk |-> 0,
                     detect_personalized_exfiltration |-> 0 ]],
      lost |-> {} ]

\* no pipeline call made: the counters of process_run_logs_for_signals
NoCounts == [bundles |-> 0, inserted |-> 0, cards |-> 0, summaries |-> 0, enrichments |-> 0]

\* the tasks of main.on_startup other than the poller, and a request of
\* POST /debug/replay_now (replay_now), none started
TasksIdle ==
    [ check_runs |-> [pc |-> "sleep", inc |-> NoIncident, inserted |-> FALSE, logs |-> << >>],
      replay |-> [ pc |-> "idle", started |-> 0, fixture |-> 1, log |-> 1,
                   inc |-> NoIncident, emitted |-> 0, cnt |-> NoCounts,
                   returns |-> {}, total |-> 0, errors |-> 0, at |-> 0,
                   rows0 |-> {}, cards0 |-> {}, done |-> << >> ],
      replay_now |-> [ pc |-> "idle", started |-> 0, fixture |-> 1, log |-> 1,
                   inc |-> NoIncident, emitted |-> 0, cnt |-> NoCounts,
                   returns |-> {}, total |-> 0, errors |-> 0, at |-> 0,
                   rows0 |-> {}, cards0 |-> {}, done |-> << >> ],
      summary_worker |-> [pc |-> "dequeue", id |-> NULL, summary |-> NULL],
      osv_worker |-> [pc |-> "dequeue", id |-> NULL, summary |-> NULL] ]

\* poll_events_loop not yet in a cycle, the setting left at its default
PollIdle ==
    /\ task = TasksIdle
    /\ MAX_WORKFLOW_FETCHES_PER_CYCLE = DefaultFetches
    /\ budget = 0
    /\ forge_calls = NoCalls
    /\ seen_events = {}
    /\ poll = Sleeping

take_unchecked(remaining) == [ok |-> TRUE, remaining |-> remaining - 1]

\* FetchBudget.take
take(remaining) ==
    IF remaining <= 0 THEN [ok |-> FALSE, remaining |-> remaining]
    ELSE [ok |-> TRUE, remaining |-> remaining - 1]

\* a helper's "if not budget.take(): return" followed by its Forge call
Fetch(method, t) ==
    /\ budget' = t.remaining
    /\ forge_calls' = [forge_calls EXCEPT ![IF t.ok THEN method ELSE "none"] = @ + 1]

PyStr(x) == IF x = NULL THEN "None" ELSE x

\* poll_events_loop: the detectors have returned; the incidents are inserted
\* one by one, then the next event is taken
InsertBegin(p) ==
    IF p.incs = << >>
    THEN [Sleeping EXCEPT !.pc = IF Len(p.evs) > 1 THEN "event" ELSE "sleep",
                          !.evs = Tail(p.evs), !.calls = p.calls, !.lost = p.lost]
    ELSE [p EXCEPT !.pc = "insert", !.todo = << >>, !.got = FALSE, !.known = 0]

\* detect_personalized_exfiltration after workflow_paths is known
PersAfterPaths(p, paths) ==
    LET ev == Head(p.evs)
    IN  IF paths = << >> \/ ev.after = NULL \/ ev.before = NULL
        THEN InsertBegin(p)
        ELSE [p EXCEPT !.pc = "p_list", !.todo = paths, !.got = FALSE]

\* history: one more call of what for the event being handled
Called(p, what) == [p EXCEPT !.calls[Head(p.evs).id][what] = @ + 1]

\* detect_personalized_exfiltration up to its first awaited call
PersBegin(p) ==
    LET ev == Head(p.evs)
        q == Called(p, "detect_personalized_exfiltration")
    IN  IF ev.type # "PushEvent" THEN InsertBegin(q)
        ELSE IF ev.commit_paths = << >> /\ ev.after # NULL
        THEN [q EXCEPT !.pc = "p_commit", !.todo = << >>, !.got = FALSE]
        ELSE PersAfterPaths(q, ev.commit_paths)

\* detect_ghostaction_risk returns its incident
GhostEmit(p) ==
    LET ev == Head(p.evs)
    IN  PersBegin([p EXCEPT !.incs = Append(@, ghostaction_incident(ev.repo, PyStr(ev.head)))])

\* detect_ghostaction_risk after the loop over workflow_paths
GhostAfterTexts(p) ==
    IF ~p.got THEN PersBegin(p)
    ELSE IF Head(p.evs).actor THEN [p EXCEPT !.pc = "g_user"]
    ELSE GhostEmit(p)

\* detect_ghostaction_risk after workflow_paths is known
GhostAfterPaths(p, paths) ==
    IF paths = << >> THEN PersBegin(p)
    ELSE [p EXCEPT !.pc = "g_text", !.todo = paths, !.got = FALSE]

\* detect_ghostaction_risk up to its first awaited call
GhostBegin(p) ==
    LET ev == Head(p.evs)
        q == Called(p, "detect_ghostaction_risk")
    IN  IF ev.type # "PushEvent" THEN PersBegin(q)
        ELSE IF ev.commit_paths = << >> /\ ev.head # NULL
        THEN [q EXCEPT !.pc = "g_commit"]
        ELSE GhostAfterPaths(q, ev.commit_paths)

\* insert_event: true when the row was inserted; the primary key event_id
\* refuses a second row, and any exception of the INSERT returns false
insert_event_ignoring_pk(event_ids, event_id, db_error) == ~db_error

insert_event(event_ids, event_id, db_error) == ~db_error /\ event_id \notin event_ids

\* the bounds of the buffer: len(RECENT_REPOS) > 500, del RECENT_REPOS[:250]
RecentCap == 500
RecentDrop == 250

\* the names used that are empty or hold no "/"
Slashless == {"", "repo"}

add_recent_repo_drop_newest(buf, repo_full_name) ==
    IF repo_full_name = NULL \/ repo_full_name \in Slashless THEN buf
    ELSE IF Len(buf) + 1 > RecentCap
         THEN SubSeq(Append(buf, repo_full_name), 1, Len(buf) + 1 - RecentDrop)
         ELSE Append(buf, repo_full_name)

\* add_recent_repo
add_recent_repo(buf, repo_full_name) ==
    IF repo_full_name = NULL \/ repo_full_name \in Slashless THEN buf
    ELSE IF Len(buf) + 1 > RecentCap
         THEN SubSeq(Append(buf, repo_full_name), RecentDrop + 1, Len(buf) + 1)
         ELSE Append(buf, repo_full_name)

\* poll_events_loop: a cycle begins with a fresh FetchBudget and the events listed
PollStart ==
    /\ Active("poll_events_loop")
    /\ poll.pc = "sleep"
    /\ budget' = MAX_WORKFLOW_FETCHES_PER_CYCLE
    /\ forge_calls' = NoCalls
    /\ \E batch \in EventBatches : poll' = [poll EXCEPT !.pc = "event", !.evs = batch]
    /\ UNCHANGED <<task, MAX_WORKFLOW_FETCHES_PER_CYCLE, seen_events>>
    /\ UNCHANGED <<sideVars, corrVars, storeVars, fanVars>>

\* insert_event; add_recent_repo and the detectors run on a new event only
PollEvent ==
    /\ poll.pc = "event"
    /\ \E db_error \in BOOLEAN :
          LET ev == Head(poll.evs)
          IN  IF insert_event(seen_events, ev.id, db_error)
              THEN /\ seen_events' = seen_events \cup {ev.id}
                   /\ RECENT_REPOS' = add_recent_repo(RECENT_REPOS, ev.repo)
                   /\ recent_call' = [repo_full_name |-> ev.repo, before |-> RECENT_REPOS]
                   /\ poll' = GhostBegin(Called(Called(poll, "insert_event"),
                                                "add_recent_repo"))
              ELSE /\ poll' = InsertBegin(poll)
                   /\ UNCHANGED <<seen_events, RECENT_REPOS, recent_call>>
    /\ UNCHANGED <<task, MAX_WORKFLOW_FETCHES_PER_CYCLE, budget, forge_calls>>
    /\ UNCHANGED <<sse, fetcher, det, plug, wk, client, sched, fields, corrVars, storeVars, fanVars, fields>>

\* poll_events_loop: an awaited store call of the cycle raises (connect in
\* insert_event and insert_incident, the UPDATE of set_enrichment); the except
\* clause around the cycle prints the error and the loop goes to sleep
PollRaise ==
    /\ poll.pc \in {"event", "insert", "set_enrichment"}
    /\ poll' = [Sleeping EXCEPT
                  !.calls = poll.calls,
                  !.lost = poll.lost \cup { Tail(poll.evs)[i].id : i \in 1 .. Len(poll.evs) - 1 }]
    /\ UNCHANGED <<task, MAX_WORKFLOW_FETCHES_PER_CYCLE, budget, forge_calls, seen_events>>
    /\ UNCHANGED <<sideVars, corrVars, storeVars, fanVars>>

\* _get_commit_files, called by either detector when the payload names no path
get_commit_files ==
    /\ poll.pc \in {"g_commit", "p_commit"}
    /\ LET t == take(budget)
       IN  /\ Fetch("get_commit", t)
           /\ \E files \in (IF t.ok THEN CommitFiles ELSE {<< >>}) :
                 poll' = IF poll.pc = "g_commit" THEN GhostAfterPaths(poll, files)
                         ELSE PersAfterPaths(poll, files)
    /\ UNCHANGED <<task, MAX_WORKFLOW_FETCHES_PER_CYCLE, seen_events>>
    /\ UNCHANGED <<sideVars, corrVars, storeVars, fanVars>>

\* _list_workflow_files, the first call of _collect_known_secrets
list_workflow_files ==
    /\ poll.pc = "p_list"
    /\ LET t == take(budget)
       IN  /\ Fetch("get_contents", t)
           /\ \E k \in (IF t.ok THEN 0..MaxListed ELSE {0}) :
                 poll' = [poll EXCEPT !.known = k,
                                      !.pc = IF k > 0 THEN "p_known" ELSE "p_text"]
    /\ UNCHANGED <<task, MAX_WORKFLOW_FETCHES_PER_CYCLE, seen_events>>
    /\ UNCHANGED <<sideVars, corrVars, storeVars, fanVars>>

\* _get_workflow_text, called in the loops of both detectors and of
\* _collect_known_secrets
get_workflow_text ==
    /\ poll.pc \in {"g_text", "p_known", "p_text"}
    /\ LET t == take(budget)
           ev == Head(poll.evs)
       IN  /\ Fetch("get_contents", t)
           /\ \E text \in (IF t.ok THEN Texts ELSE {"none"}) :
                 poll' =
                    IF poll.pc = "g_text"
                    THEN LET q == [poll EXCEPT !.todo = Tail(@),
                                               !.got = @ \/ text = "exfil"]
                         IN  IF q.todo = << >> THEN GhostAfterTexts(q) ELSE q
                    ELSE IF poll.pc = "p_known"
                    THEN [poll EXCEPT !.known = @ - 1,
                                      !.pc = IF poll.known = 1 THEN "p_text" ELSE @]
                    ELSE LET inc == personalized_incident(ev.repo, ev.after, Head(poll.todo))
                             q == [poll EXCEPT !.todo = Tail(@),
                                               !.incs = IF text = "exfil"
                                                        THEN Append(@, inc) ELSE @]
                         IN  IF q.todo = << >> THEN InsertBegin(q) ELSE q
    /\ UNCHANGED <<task, MAX_WORKFLOW_FETCHES_PER_CYCLE, seen_events>>
    /\ UNCHANGED <<sideVars, corrVars, storeVars, fanVars>>

\* _fetch_actor_context: get_user
fetch_actor_user ==
    /\ poll.pc = "g_user"
    /\ LET t == take(budget)
       IN  /\ Fetch("get_user", t)
           /\ \E found \in (IF t.ok THEN BOOLEAN ELSE {FALSE}) :
                 poll' = IF found THEN [poll EXCEPT !.pc = "g_perm"] ELSE GhostEmit(poll)
    /\ UNCHANGED <<task, MAX_WORKFLOW_FETCHES_PER_CYCLE, seen_events>>
    /\ UNCHANGED <<sideVars, corrVars, storeVars, fanVars>>

\* _fetch_actor_context: get_collaborator_permission
fetch_actor_permission ==
    /\ poll.pc = "g_perm"
    /\ Fetch("get_collaborator_permission", take(budget))
    /\ poll' = GhostEmit(poll)
    /\ UNCHANGED <<task, MAX_WORKFLOW_FETCHES_PER_CYCLE, seen_events>>
    /\ UNCHANGED <<sideVars, corrVars, storeVars, fanVars>>

\* poll_events_loop: insert_incident of the next detected incident
PollInsert ==
    /\ poll.pc = "insert"
    /\ \E db_error \in BOOLEAN :
          LET inc == Head(poll.incs)
              rest == [poll EXCEPT !.incs = Tail(@)]
          IN  /\ insert_incident(inc, db_error)
              /\ IF insert_result(incidents, inc, db_error)
                 THEN /\ poll' = [rest EXCEPT !.pc = "fanout", !.inc = inc]
                      /\ fan' = fan \cup {Step(inc.incident_id, "poll_events_loop", "inserted")}
                 ELSE /\ poll' = InsertBegin(rest)
                      /\ UNCHANGED fan
    /\ UNCHANGED <<uuid_seq, run_inserts, built>>
    /\ UNCHANGED <<task, MAX_WORKFLOW_FETCHES_PER_CYCLE, budget, forge_calls, seen_events>>
    /\ UNCHANGED <<published, summary_q, enrichment_q>>
    /\ UNCHANGED <<corrVars, sideVars>>

\* poll_events_loop after a successful insert: publish, summary enqueue,
\* maybe_enqueue_enrichment up to its awaited write
PollFanout ==
    /\ poll.pc = "fanout"
    /\ LET id == poll.inc.incident_id
           by == "poll_events_loop"
       IN  /\ published' = published \cup {Card(id, "incident")}
           /\ summary_q' = enqueue(summary_q, id, SummaryQueueMaxsize)
           /\ IF is_osv_relevant(poll.inc)
              THEN /\ enrichment_q' = enqueue(enrichment_q, id, EnrichmentQueueMaxsize)
                   /\ fan' = fan \cup { Step(id, by, st) :
                                st \in {"card", "summary", "enrichment", "done"} }
                   /\ poll' = InsertBegin([poll EXCEPT !.inc = NoIncident])
              ELSE /\ UNCHANGED enrichment_q
                   /\ fan' = fan \cup { Step(id, by, st) : st \in {"card", "summary"} }
                   /\ poll' = [poll EXCEPT !.pc = "set_enrichment"]
    /\ UNCHANGED <<task, MAX_WORKFLOW_FETCHES_PER_CYCLE, budget, forge_calls, seen_events>>
    /\ UNCHANGED <<sideVars, corrVars, storeVars>>

\* maybe_enqueue_enrichment of an incident that is not OSV relevant
PollSetEnrichment ==
    /\ poll.pc = "set_enrichment"
    /\ LET id == poll.inc.incident_id
           by == "poll_events_loop"
       IN  /\ incidents' = set_enrichment(incidents, id, "not_applicable")
           /\ fan' = fan \cup { Step(id, by, st) : st \in {"enrichment", "done"} }
           /\ poll' = InsertBegin([poll EXCEPT !.inc = NoIncident])
    /\ UNCHANGED <<uuid_seq, ins, run_inserts, built>>
    /\ UNCHANGED <<task, MAX_WORKFLOW_FETCHES_PER_CYCLE, budget, forge_calls, seen_events>>
    /\ UNCHANGED <<published, summary_q, enrichment_q>>
    /\ UNCHANGED <<corrVars, sideVars>>

PollInit ==
    /\ SideIdle
    /\ StoreEmpty
    /\ task = TasksIdle
    /\ MAX_WORKFLOW_FETCHES_PER_CYCLE \in FetchSettings
    /\ budget = 0
    /\ forge_calls = NoCalls
    /\ seen_events = {}
    /\ poll = Sleeping
    /\ FanEmpty
    /\ CorrIdle
    /\ script = "poll_events_loop"

PollNext ==
    \/ PollStart
    \/ PollEvent
    \/ PollRaise
    \/ get_commit_files
    \/ list_workflow_files
    \/ get_workflow_text
    \/ fetch_actor_user
    \/ fetch_actor_permission
    \/ PollInsert
    \/ PollFanout
    \/ PollSetEnrichment

SpecPoll == PollInit /\ [][PollNext]_vars

----------------------------------------------------------------------------
(* Callers of insert_incident, one call per step *)

\* the incidents the detectors, the correlator and the replay harness can build
DetectedIncidents ==
    { ghostaction_incident(r, h) : r \in EventRepos, h \in HeadShas }
        \cup { personalized_incident(r, h, p) :
                  r \in EventRepos, h \in HeadShas, p \in WorkflowPaths }
        \cup { ecosystem_incident(build_incident(s, << >>, t, S1Config)) :
                  s \in {"npm_auth_token_expired"}, t \in {0, 30} }
        \cup { replay_example_incident }

\* main.debug_check_repo_once / check_runs_loop: run_to_incident, then insert
InsertRun ==
    /\ uuid_seq + Cardinality(built) < MaxInserts
    /\ \E run_id \in RunIds, db_error \in BOOLEAN :
          LET inc == run_to_incident(run_id, uuid_seq + 1)
          IN  /\ insert_incident(inc, db_error)
              /\ uuid_seq' = uuid_seq + 1
              /\ run_inserts' = [run_inserts EXCEPT ![run_id] =
                    Append(@, [ok |-> insert_result(incidents, inc, db_error),
                               db_error |-> db_error])]
              /\ UNCHANGED built
    /\ UNCHANGED <<sideVars, corrVars, pollVars, fanVars>>

\* poll_events_loop / process_run_logs_for_signals / replay: insert of a built incident
InsertDetected ==
    /\ uuid_seq + Cardinality(built) < MaxInserts
    /\ \E inc \in DetectedIncidents \ built, db_error \in BOOLEAN :
          /\ insert_incident(inc, db_error)
          /\ built' = built \cup {inc}
          /\ UNCHANGED <<uuid_seq, run_inserts>>
    /\ UNCHANGED <<sideVars, corrVars, pollVars, fanVars>>

\* a detection repeated on the same input
InsertAgain ==
    /\ \E inc \in built, db_error \in BOOLEAN :
          /\ insert_incident(inc, db_error)
          /\ UNCHANGED <<uuid_seq, run_inserts, built>>
    /\ UNCHANGED <<sideVars, corrVars, pollVars, fanVars>>

\* the incident ids the store is written for: those built so far and one
\* that has no row
StoreIds == { r.incident_id : r \in incidents } \cup {"no-such-incident"}

\* incidents.set_summary on a row without a summary
StoreSetSummary ==
    /\ \E incident_id \in StoreIds :
          /\ \A r \in incidents : r.incident_id = incident_id => r.summary = NULL
          /\ incidents' = set_summary(incidents, incident_id, "fallback")
    /\ UNCHANGED <<uuid_seq, ins, run_inserts, built>>
    /\ UNCHANGED <<sideVars, corrVars, pollVars, fanVars>>

\* summary_queue._store_summary, the write of the summary worker
StoreStoreSummary ==
    /\ \E incident_id \in StoreIds :
          /\ \A r \in incidents : r.incident_id = incident_id => r.summary = NULL
          /\ incidents' = store_summary(incidents, incident_id, "fallback")
    /\ UNCHANGED <<uuid_seq, ins, run_inserts, built>>
    /\ UNCHANGED <<sideVars, corrVars, pollVars, fanVars>>

\* incidents.set_enrichment, the write of maybe_enqueue_enrichment and of
\* the OSV worker
StoreSetEnrichment ==
    /\ \E incident_id \in StoreIds, status \in {"not_applicable", "queried"} :
          /\ \A r \in incidents : r.incident_id = incident_id => r.enrichment # status
          /\ incidents' = set_enrichment(incidents, incident_id, status)
    /\ UNCHANGED <<uuid_seq, ins, run_inserts, built>>
    /\ UNCHANGED <<sideVars, corrVars, pollVars, fanVars>>

StoreInit ==
    /\ SideIdle
    /\ StoreEmpty
    /\ PollIdle
    /\ FanEmpty
    /\ CorrIdle
    /\ script = "free"

StoreNext == InsertRun \/ InsertDetected \/ InsertAgain \/ StoreSetSummary

SpecStore == StoreInit /\ [][StoreNext]_vars

----------------------------------------------------------------------------
(* Drivers of the correlator *)

\* the times a caller may pass as occurred_at: older than the window, current
OccTimes == { now - cfg.window - 1, now }

\* any caller, any arguments
FreeIngest ==
    /\ script = "free"
    /\ Len(results) < MaxCalls
    /\ \E s \in Signatures, p \in Pairs, o \in OccurredAt(OccTimes), k \in 0..MaxSkew :
          /\ now + k <= MaxNow
          /\ ingest(s, p.repo, p.owner, o, k)
    /\ UNCHANGED <<storeVars, pollVars, fanVars>>

\* the clock is non-decreasing
Tick ==
    /\ \/ script = "free" /\ now < MaxNow
       \/ script = "S1" /\ Len(results) = 5 /\ now < 29
       \/ script = "S1" /\ Len(results) = 6 /\ now < 31
    /\ now' = now + 1
    /\ UNCHANGED <<cfg, entries, last_emit, ret, call, emits, results, script, sideVars>>
    /\ UNCHANGED <<storeVars, pollVars, fanVars>>

\* scenario S1: five distinct repos of three owners at one instant, a sixth
\* call less than 30 minutes later, a seventh 31 minutes after the fifth
S1Ingest ==
    /\ script = "S1"
    /\ \/ /\ Len(results) < 5
          /\ LET p == S1Pairs[Len(results) + 1]
             IN ingest("npm_auth_token_expired", p.repo, p.owner,
                       [kind |-> "iso", t |-> now], 0)
       \/ /\ \/ Len(results) = 5
             \/ Len(results) = 6 /\ now = 31
          /\ \E p \in S1LatePairs :
                ingest("npm_auth_token_expired", p.repo, p.owner,
                       [kind |-> "iso", t |-> now], 0)
    /\ UNCHANGED <<storeVars, pollVars, fanVars>>

CorrInit ==
    /\ now = 0
    /\ \/ script = "free" /\ cfg \in FreeConfigs
       \/ script = "S1" /\ cfg = S1Config
    /\ entries = [s \in Signatures |-> << >>]
    /\ last_emit = [s \in Signatures |-> NoEmit]
    /\ ret = NoBundle
    /\ call = NoCall
    /\ emits = [s \in Signatures |-> << >>]
    /\ results = << >>
    /\ SideIdle
    /\ StoreEmpty
    /\ PollIdle
    /\ FanEmpty

CorrNext == FreeIngest \/ Tick \/ S1Ingest

\* any caller passing any form of occurred_at
ParseIngest ==
    /\ script = "free"
    /\ Len(results) < MaxCalls
    /\ \E s \in Signatures, p \in Pairs, o \in OccurredAtAny(OccTimes) :
          ingest(s, p.repo, p.owner, o, 0)
    /\ UNCHANGED <<storeVars, pollVars, fanVars>>

ParseInit ==
    /\ CorrInit
    /\ script = "free"

SpecParse == ParseInit /\ [][ParseIngest \/ Tick]_vars

SpecCorrelator == CorrInit /\ [][CorrNext]_vars

----------------------------------------------------------------------------
(* check_runs.py, replay/fixtures.py with services/signal_pipeline.py, and the
   workers of summary_queue.py and services/osv_enrichment.py: a step per
   awaited call.  script names the producer that runs beside the workers. *)

MaxRunChecks == 2   \* failed runs converted by check_runs_loop
MaxReplays == 2     \* runs of run_replay_fixtures (startup, /debug/replay_now)

\* _fixtures: the five run contexts; each is replayed with the same four logs,
\* of which the plugin matches the first, third and fourth
ReplayFixtures ==
    << [repo |-> "org-a/repo-one", owner |-> "org-a"],
       [repo |-> "org-b/repo-two", owner |-> "org-b"],
       [repo |-> "org-c/repo-three", owner |-> "org-c"],
       [repo |-> "org-a/repo-four", owner |-> "org-a"],
       [repo |-> "org-b/repo-five", owner |-> "org-b"] >>

FixtureLogs == <<TRUE, FALSE, TRUE, TRUE>>

\* check_runs_loop: run_to_incident and insert_incident of a failed run
RunsInsert ==
    /\ Active("check_runs_loop")
    /\ task.check_runs.pc = "sleep"
    /\ uuid_seq < MaxRunChecks
    /\ \E run_id \in RunIds, db_error \in BOOLEAN :
          LET inc == run_to_incident(run_id, uuid_seq + 1)
              ok == insert_result(incidents, inc, db_error)
          IN  /\ insert_incident(inc, db_error)
              /\ uuid_seq' = uuid_seq + 1
              /\ task' = [task EXCEPT !.check_runs =
                    [pc |-> IF ok THEN "fanout" ELSE "logs", inc |-> inc, inserted |-> ok,
                     logs |-> << >>]]
              /\ fan' = IF ok THEN fan \cup {Step(inc.incident_id, "check_runs_loop", "inserted")}
                        ELSE fan
    /\ UNCHANGED <<run_inserts, built, published, summary_q, enrichment_q>>
    /\ UNCHANGED <<MAX_WORKFLOW_FETCHES_PER_CYCLE, budget, forge_calls, seen_events, poll>>
    /\ UNCHANGED <<corrVars, sideVars>>

\* check_runs_loop, the "if inserted:" block
RunsFanout ==
    /\ task.check_runs.pc = "fanout"
    /\ LET id == task.check_runs.inc.incident_id
       IN  /\ published' = published \cup {Card(id, "incident")}
           /\ summary_q' = enqueue(summary_q, id, SummaryQueueMaxsize)
           /\ fan' = fan \cup { Step(id, "check_runs_loop", st) : st \in {"card", "summary"} }
    /\ task' = [task EXCEPT !.check_runs.pc = "logs"]
    /\ UNCHANGED <<enrichment_q, storeVars, corrVars, sideVars>>
    /\ UNCHANGED <<MAX_WORKFLOW_FETCHES_PER_CYCLE, budget, forge_calls, seen_events, poll>>

\* check_runs_loop is done with the failed run: "break", or the except clause,
\* and the next repo
RunsDone(c) ==
    /\ fan' = IF c.inserted
              THEN fan \cup {Step(c.inc.incident_id, "check_runs_loop", "done")}
              ELSE fan
    /\ task' = [task EXCEPT !.check_runs = TasksIdle.check_runs]

\* check_runs_loop: logs = await fetch_run_logs(...) or []; without logs the
\* pipeline is not called
RunsLogs ==
    /\ task.check_runs.pc = "logs"
    /\ \E logs \in {<< >>, FixtureLogs} :
          IF logs = << >> THEN RunsDone(task.check_runs)
          ELSE /\ task' = [task EXCEPT !.check_runs.pc = "signals", !.check_runs.logs = logs]
               /\ UNCHANGED fan
    /\ UNCHANGED <<published, summary_q, enrichment_q, storeVars, corrVars, sideVars>>
    /\ UNCHANGED <<MAX_WORKFLOW_FETCHES_PER_CYCLE, budget, forge_calls, seen_events, poll>>

\* check_runs_loop, "if logs:": process_run_logs_for_signals is called with
\* seven of its nine required parameters (summary_queue and enrichment_queue
\* are missing), the call raises TypeError before the body runs and the except
\* clause of the loop prints it: no plugin is applied, ingest is not called
RunsSignals ==
    /\ task.check_runs.pc = "signals"
    /\ RunsDone(task.check_runs)
    /\ UNCHANGED <<published, summary_q, enrichment_q, storeVars, corrVars, sideVars>>
    /\ UNCHANGED <<MAX_WORKFLOW_FETCHES_PER_CYCLE, budget, forge_calls, seen_events, poll>>

\* process_run_logs_for_signals moves to the next log entry, or returns emitted
\* and run_replay_fixtures calls it for the next fixture, or for none
PipelineAdvance(r) ==
    IF r.log < Len(FixtureLogs) THEN [r EXCEPT !.pc = "pipeline", !.log = @ + 1]
    ELSE [r EXCEPT !.pc = IF r.fixture < Len(ReplayFixtures) THEN "pipeline" ELSE "example",
                   !.fixture = IF r.fixture < Len(ReplayFixtures) THEN @ + 1 ELSE 1,
                   !.log = 1, !.emitted = 0, !.cnt = NoCounts,
                   !.total = @ + r.emitted,
                   !.returns = @ \cup {[ret |-> r.emitted, cnt |-> r.cnt]}]

\* the rows of table incidents by incident_id and kind, and the incident_ids of
\* the initial cards published
RowKinds(rows) == { <<x.incident_id, x.kind>> : x \in rows }
InitialCards(cards) == { c.incident_id : c \in { x \in cards : x.event = "incident" } }

\* run_replay_fixtures returns emitted, n of it from the example.  History: the
\* value returned, the clock, rows and cards at the start of the run and at
\* its return, and the store errors swallowed by insert_incident so far
ReplayReturn(r, n, rows, cards) ==
    [r EXCEPT !.pc = "idle", !.inc = NoIncident, !.total = 0,
              !.done = Append(@, [ret |-> r.total + n, at |-> r.at, errors |-> r.errors,
                                  rows0 |-> r.rows0, rows |-> RowKinds(rows),
                                  cards0 |-> r.cards0, cards |-> InitialCards(cards)])]

\* the harness is done with an incident: the example was the last step of the
\* run, a bundle's incident is followed by the next log entry
ReplayAfter(r) ==
    IF r.inc.path = "_emit_personalized_exfiltration_example"
    THEN ReplayReturn(r, 1, incidents, published \cup {Card(r.inc.incident_id, "incident")})
    ELSE PipelineAdvance([r EXCEPT !.inc = NoIncident])

Count_emitted_per_bundle(r, what) ==
    [r EXCEPT !.cnt = [k \in DOMAIN @ |-> IF k \in what THEN @[k] + 1 ELSE @[k]],
              !.emitted = r.cnt.bundles]

\* the counters of the running pipeline call, and emitted with the card; the
\* example is not part of a pipeline call
Count(r, what) ==
    IF r.inc.path = "_emit_personalized_exfiltration_example" THEN r
    ELSE [r EXCEPT !.cnt = [k \in DOMAIN @ |-> IF k \in what THEN @[k] + 1 ELSE @[k]],
                   !.emitted = IF "cards" \in what THEN @ + 1 ELSE @]

\* the producer named in the history for an incident of the harness
ReplayBy(r) ==
    IF r.inc.path = "_emit_personalized_exfiltration_example"
    THEN "run_replay_fixtures" ELSE "process_run_logs_for_signals"

\* run_replay_fixtures is started
ReplayStartBy(k) ==
    /\ Active("run_replay_fixtures")
    /\ task[k].pc = "idle"
    /\ task[k].started < MaxReplays
    /\ task' = [task EXCEPT ![k].pc = "pipeline", ![k].started = @ + 1,
                             ![k].at = now, ![k].rows0 = RowKinds(incidents),
                             ![k].cards0 = InitialCards(published)]
    /\ UNCHANGED <<sideVars, corrVars, storeVars, fanVars>>
    /\ UNCHANGED <<MAX_WORKFLOW_FETCHES_PER_CYCLE, budget, forge_calls, seen_events, poll>>

\* a cooldown period passes between two runs of the harness
ReplayLater ==
    /\ task.replay.pc = "idle"
    /\ task.replay.started > 0
    /\ now < cfg.cooldown
    /\ now' = now + cfg.cooldown
    /\ UNCHANGED <<cfg, entries, last_emit, ret, call, emits, results, script, sideVars>>
    /\ UNCHANGED <<storeVars, pollVars, fanVars>>

\* process_run_logs_for_signals, one log entry: plugin.match, correlator.ingest
PipelineLogBy(k) ==
    /\ task[k].pc = "pipeline"
    /\ LET r == task[k]
           f == ReplayFixtures[r.fixture]
       IN  IF FixtureLogs[r.log]
           THEN /\ ingest("npm_auth_token_expired", f.repo, f.owner,
                          [kind |-> "iso", t |-> now], 0)
                /\ task' = [task EXCEPT ![k] =
                      IF ret'.bundle
                      THEN [r EXCEPT !.pc = "insert", !.inc = ecosystem_incident(ret'),
                                     !.cnt.bundles = @ + 1]
                      ELSE PipelineAdvance(r)]
           ELSE /\ task' = [task EXCEPT ![k] = PipelineAdvance(r)]
                /\ UNCHANGED <<corrVars, sideVars>>
    /\ UNCHANGED <<storeVars, fanVars>>
    /\ UNCHANGED <<MAX_WORKFLOW_FETCHES_PER_CYCLE, budget, forge_calls, seen_events, poll>>

\* _emit_personalized_exfiltration_example up to its insert_incident
ReplayExampleBy(k) ==
    /\ task[k].pc = "example"
    /\ \E db_error \in BOOLEAN :
          LET inc == replay_example_incident
              ok == insert_result(incidents, inc, db_error)
          IN  /\ insert_incident(inc, db_error)
              /\ task' = [task EXCEPT ![k] =
                    IF ok THEN [@ EXCEPT !.pc = "fanout", !.inc = inc]
                    ELSE ReplayReturn([@ EXCEPT !.errors = IF db_error THEN @ + 1 ELSE @],
                                      0, incidents, published)]
              /\ fan' = IF ok THEN fan \cup {Step(inc.incident_id, "run_replay_fixtures", "inserted")}
                        ELSE fan
    /\ UNCHANGED <<uuid_seq, run_inserts, built, published, summary_q, enrichment_q>>
    /\ UNCHANGED <<MAX_WORKFLOW_FETCHES_PER_CYCLE, budget, forge_calls, seen_events, poll>>
    /\ UNCHANGED <<corrVars, sideVars>>

\* process_run_logs_for_signals: insert_incident of the bundle's incident
PipelineInsertBy(k) ==
    /\ task[k].pc = "insert"
    /\ \E db_error \in BOOLEAN :
          LET inc == task[k].inc
              ok == insert_result(incidents, inc, db_error)
          IN  /\ insert_incident(inc, db_error)
              /\ task' = [task EXCEPT ![k] =
                    IF ok THEN [@ EXCEPT !.pc = "fanout", !.cnt.inserted = @ + 1]
                    ELSE PipelineAdvance([@ EXCEPT !.inc = NoIncident,
                            !.errors = IF db_error THEN @ + 1 ELSE @])]
              /\ fan' = IF ok THEN fan \cup {Step(inc.incident_id, "process_run_logs_for_signals", "inserted")}
                        ELSE fan
    /\ UNCHANGED <<uuid_seq, run_inserts, built, published, summary_q, enrichment_q>>
    /\ UNCHANGED <<MAX_WORKFLOW_FETCHES_PER_CYCLE, budget, forge_calls, seen_events, poll>>
    /\ UNCHANGED <<corrVars, sideVars>>

\* after a successful insert, in the pipeline and in the example alike: summary
\* enqueue, then maybe_enqueue_enrichment up to its awaited write, or through to
\* the card when the incident is OSV relevant
ReplayFanoutBy(k) ==
    /\ task[k].pc = "fanout"
    /\ LET r == task[k]
           id == r.inc.incident_id
       IN  /\ summary_q' = enqueue(summary_q, id, SummaryQueueMaxsize)
           /\ IF is_osv_relevant(r.inc)
              THEN /\ enrichment_q' = enqueue(enrichment_q, id, EnrichmentQueueMaxsize)
                   /\ published' = published \cup {Card(id, "incident")}
                   /\ fan' = fan \cup { Step(id, ReplayBy(r), st) :
                                st \in {"summary", "enrichment", "card", "done"} }
                   /\ task' = [task EXCEPT ![k] = ReplayAfter(
                         Count(r, {"summaries", "enrichments", "cards"}))]
              ELSE /\ UNCHANGED <<enrichment_q, published>>
                   /\ fan' = fan \cup {Step(id, ReplayBy(r), "summary")}
                   /\ task' = [task EXCEPT ![k] =
                         [Count(r, {"summaries"}) EXCEPT !.pc = "set_enrichment"]]
    /\ UNCHANGED <<storeVars, corrVars, sideVars>>
    /\ UNCHANGED <<MAX_WORKFLOW_FETCHES_PER_CYCLE, budget, forge_calls, seen_events, poll>>

\* maybe_enqueue_enrichment of an incident that is not OSV relevant
ReplaySetEnrichmentBy(k) ==
    /\ task[k].pc = "set_enrichment"
    /\ LET r == task[k]
       IN  /\ incidents' = set_enrichment(incidents, r.inc.incident_id, "not_applicable")
           /\ fan' = fan \cup {Step(r.inc.incident_id, ReplayBy(r), "enrichment")}
    /\ task' = [task EXCEPT ![k] =
          [Count(@, {"enrichments"}) EXCEPT !.pc = "publish"]]
    /\ UNCHANGED <<uuid_seq, ins, run_inserts, built, published, summary_q, enrichment_q>>
    /\ UNCHANGED <<MAX_WORKFLOW_FETCHES_PER_CYCLE, budget, forge_calls, seen_events, poll>>
    /\ UNCHANGED <<corrVars, sideVars>>

\* the card, published after maybe_enqueue_enrichment has returned
ReplayPublishBy(k) ==
    /\ task[k].pc = "publish"
    /\ LET r == task[k]
           id == r.inc.incident_id
       IN  /\ published' = published \cup {Card(id, "incident")}
           /\ fan' = fan \cup { Step(id, ReplayBy(r), st) : st \in {"card", "done"} }
           /\ task' = [task EXCEPT ![k] = ReplayAfter(Count(r, {"cards"}))]
    /\ UNCHANGED <<summary_q, enrichment_q, storeVars, corrVars, sideVars>>
    /\ UNCHANGED <<MAX_WORKFLOW_FETCHES_PER_CYCLE, budget, forge_calls, seen_events, poll>>

\* the task started by on_startup
ReplayStart == ReplayStartBy("replay")
PipelineLog == PipelineLogBy("replay")
ReplayExample == ReplayExampleBy("replay")
PipelineInsert == PipelineInsertBy("replay")
ReplayFanout == ReplayFanoutBy("replay")
ReplaySetEnrichment == ReplaySetEnrichmentBy("replay")
ReplayPublish == ReplayPublishBy("replay")

\* the tasks that call process_run_logs_for_signals on the correlator and the
\* store of the module: the startup replay task and a request of
\* /debug/replay_now
ReplayTasks == {"replay", "replay_now"}

\* the run contexts (repo_full_name, owner) the tasks pass
PipelinePairs ==
    { [repo |-> "org-a/repo1", owner |-> "org-a"],
      [repo |-> "org-b/repo2", owner |-> "org-b"] }

\* process_run_logs_for_signals called by task k for any run context, one
\* matching log entry: plugin.match and correlator.ingest run without an await;
\* with a bundle the task is suspended next in insert_incident
PipelineMatchBy(k) ==
    /\ script = "free"
    /\ task[k].pc = "pipeline"
    /\ Len(results) < MaxCalls
    /\ \E s \in Signatures, p \in PipelinePairs :
          ingest(s, p.repo, p.owner, [kind |-> "iso", t |-> now], 0)
    /\ task' = [task EXCEPT ![k] =
          IF ret'.bundle
          THEN [@ EXCEPT !.pc = "insert", !.inc = ecosystem_incident(ret'),
                         !.cnt.bundles = @ + 1]
          ELSE @]
    /\ UNCHANGED <<storeVars, published, summary_q, enrichment_q, fan>>
    /\ UNCHANGED <<MAX_WORKFLOW_FETCHES_PER_CYCLE, budget, forge_calls, seen_events, poll>>

\* task k calls process_run_logs_for_signals
PipelineCallBy(k) ==
    /\ script = "free"
    /\ task[k].pc = "idle"
    /\ task' = [task EXCEPT ![k].pc = "pipeline"]
    /\ UNCHANGED <<corrVars, sideVars, storeVars, fanVars>>
    /\ UNCHANGED <<MAX_WORKFLOW_FETCHES_PER_CYCLE, budget, forge_calls, seen_events, poll>>

ConcurrentInit ==
    /\ CorrInit
    /\ script = "free"

ConcurrentNext ==
    \/ Tick
    \/ \E k \in ReplayTasks :
          \/ PipelineCallBy(k)
          \/ PipelineMatchBy(k)
          \/ PipelineInsertBy(k)
          \/ ReplayFanoutBy(k)
          \/ ReplaySetEnrichmentBy(k)
          \/ ReplayPublishBy(k)

SpecConcurrent == ConcurrentInit /\ [][ConcurrentNext]_vars

Workers == {"summary_worker", "osv_worker"}

\* queue.dequeue of summary_worker_loop / osv_worker_loop
WorkerDequeue ==
    \E w \in Workers :
        /\ task[w].pc = "dequeue"
        /\ IF w = "summary_worker"
           THEN /\ summary_q # << >>
                /\ task' = [task EXCEPT ![w] = [pc |-> "fetch", id |-> Head(summary_q), summary |-> NULL]]
                /\ summary_q' = Tail(summary_q)
                /\ UNCHANGED enrichment_q
           ELSE /\ enrichment_q # << >>
                /\ task' = [task EXCEPT ![w] = [pc |-> "fetch", id |-> Head(enrichment_q), summary |-> NULL]]
                /\ enrichment_q' = Tail(enrichment_q)
                /\ UNCHANGED summary_q
        /\ UNCHANGED <<published, fan, storeVars, corrVars, sideVars>>
        /\ UNCHANGED <<MAX_WORKFLOW_FETCHES_PER_CYCLE, budget, forge_calls, seen_events, poll>>

\* _fetch_incident: without a row the worker takes the next id
WorkerFetch ==
    \E w \in Workers :
        /\ task[w].pc = "fetch"
        /\ task' = [task EXCEPT ![w] =
              IF \E row \in incidents : row.incident_id = task[w].id
              THEN [@ EXCEPT !.pc = "store"]
              ELSE [pc |-> "dequeue", id |-> NULL, summary |-> NULL]]
        /\ UNCHANGED <<fanVars, storeVars, corrVars, sideVars>>
        /\ UNCHANGED <<MAX_WORKFLOW_FETCHES_PER_CYCLE, budget, forge_calls, seen_events, poll>>

\* _store_summary of the summary worker; set_enrichment of the OSV worker,
\* which writes not_applicable and publishes nothing for a row that is not
\* OSV relevant
WorkerStore ==
    \E w \in Workers :
        /\ task[w].pc = "store"
        /\ LET id == task[w].id
               row == CHOOSE x \in incidents : x.incident_id = id
           IN  IF w = "summary_worker"
               THEN \E reply \in (IF wk.ANTHROPIC_API_KEY THEN DOMAIN LlmReplies
                                  ELSE {"http_error"}) :
                       /\ incidents' = store_summary(incidents, id,
                                          build_summary(wk.ANTHROPIC_API_KEY, reply))
                       /\ task' = [task EXCEPT
                             ![w].pc = "publish",
                             ![w].summary = build_summary(wk.ANTHROPIC_API_KEY, reply)]
               ELSE IF is_osv_relevant(row)
               THEN /\ incidents' = set_enrichment(incidents, id, "queried")
                    /\ task' = [task EXCEPT ![w].pc = "publish"]
               ELSE /\ incidents' = set_enrichment(incidents, id, "not_applicable")
                    /\ task' = [task EXCEPT ![w] = [pc |-> "dequeue", id |-> NULL, summary |-> NULL]]
        /\ UNCHANGED <<uuid_seq, ins, run_inserts, built, fanVars, corrVars, sideVars>>
        /\ UNCHANGED <<MAX_WORKFLOW_FETCHES_PER_CYCLE, budget, forge_calls, seen_events, poll>>

\* the follow-up card of a worker
WorkerPublish ==
    \E w \in Workers :
        /\ task[w].pc = "publish"
        /\ published' = published \cup
              { IF w = "summary_worker" THEN SummaryCard(task[w].id, task[w].summary)
                ELSE Card(task[w].id, "incident_enriched") }
        /\ task' = [task EXCEPT ![w] = [pc |-> "dequeue", id |-> NULL, summary |-> NULL]]
        /\ UNCHANGED <<summary_q, enrichment_q, fan, storeVars, corrVars, sideVars>>
        /\ UNCHANGED <<MAX_WORKFLOW_FETCHES_PER_CYCLE, budget, forge_calls, seen_events, poll>>

Scenarios == {"poll_events_loop", "check_runs_loop", "run_replay_fixtures"}

Init ==
    /\ SideIdle
    /\ StoreEmpty
    /\ PollIdle
    /\ FanEmpty
    /\ CorrIdle
    /\ script \in Scenarios

Next ==
    \/ PollStart
    \/ PollEvent
    \/ PollRaise
    \/ get_commit_files
    \/ list_workflow_files
    \/ get_workflow_text
    \/ fetch_actor_user
    \/ fetch_actor_permission
    \/ PollInsert
    \/ PollFanout
    \/ PollSetEnrichment
    \/ RunsInsert
    \/ RunsFanout
    \/ RunsLogs
    \/ RunsSignals
    \/ ReplayStart
    \/ ReplayLater
    \/ PipelineLog
    \/ ReplayExample
    \/ PipelineInsert
    \/ ReplayFanout
    \/ ReplaySetEnrichment
    \/ ReplayPublish
    \/ WorkerDequeue
    \/ WorkerFetch
    \/ WorkerStore
    \/ WorkerPublish

Spec == Init /\ [][Next]_vars

----------------------------------------------------------------------------
(* Part 5: IncidentBroadcaster (sse.py).  publish has no await and is one  *)
(* step; a subscribe generator registers its queue when it is first        *)
(* resumed, hands over one item per resumption and unregisters in its      *)
(* finally block when it is closed.                                        *)

\* q in self._subscribers
Subscribed(s) == \E i \in DOMAIN sse.subscribers : sse.subscribers[i] = s

\* list.remove: the first element equal to q goes, the rest keep their order
remove_keeps_queue(subscribers, s) == subscribers

remove(subscribers, s) ==
    LET at == { i \in DOMAIN subscribers : subscribers[i] = s }
        first == CHOOSE i \in at : \A j \in at : i <= j
    IN  IF at = {} THEN subscribers
        ELSE SubSeq(subscribers, 1, first - 1) \o SubSeq(subscribers, first + 1, Len(subscribers))

\* await q.get(): the oldest item, which leaves the queue
q_get_newest(q) == [item |-> q[Len(q)], rest |-> SubSeq(q, 1, Len(q) - 1)]

q_get(q) == [item |-> Head(q), rest |-> Tail(q)]

\* IncidentBroadcaster.publish: put_nowait on every queue of a copy of the list,
\* QueueFull swallowed per queue
publish ==
    /\ sse.publish_count < MaxPublished
    /\ LET card == sse.publish_count + 1 IN
       sse' = [sse EXCEPT
                 !.publish_count = card,
                 !.queue = [s \in Subscribers |->
                              IF Subscribed(s) THEN enqueue(sse.queue[s], card, QueueMaxsize)
                              ELSE sse.queue[s]]]
    /\ UNCHANGED <<coreVars, fetcher, det, lateVars>>

\* subscribe, first resumption: a new queue is appended to _subscribers
subscribe(s) ==
    /\ s \notin sse.started
    /\ sse' = [sse EXCEPT !.started = @ \cup {s},
                          !.subscribers = Append(@, s)]
    /\ UNCHANGED <<coreVars, fetcher, det, lateVars>>

\* subscribe, the loop: item = await q.get(); yield item
subscribe_yield(s) ==
    /\ Subscribed(s)
    /\ sse.queue[s] # << >>
    /\ sse' = [sse EXCEPT !.queue[s] = q_get(sse.queue[s]).rest,
                          !.received[s] = Append(@, q_get(sse.queue[s]).item)]
    /\ UNCHANGED <<coreVars, fetcher, det, lateVars>>

\* subscribe, the generator closed at its suspension point: the finally block
subscribe_close(s) ==
    /\ s \in sse.started \ sse.closed
    /\ sse' = [sse EXCEPT !.closed = @ \cup {s},
                          !.subscribers = IF Subscribed(s) THEN remove(@, s) ELSE @]
    /\ UNCHANGED <<coreVars, fetcher, det, lateVars>>

SseInit ==
    /\ SideIdle
    /\ StoreEmpty
    /\ PollIdle
    /\ FanEmpty
    /\ CorrIdle
    /\ script = "free"

SpecSse ==
    SseInit /\ [][ \/ publish
                   \/ \E s \in Subscribers : subscribe(s)
                   \/ \E s \in Subscribers : subscribe_yield(s)
                   \/ \E s \in Subscribers : subscribe_close(s) ]_vars

----------------------------------------------------------------------------
(* Part 6: RunLogFetcher (services/run_logs.py).  check_runs_loop is its   *)
(* only caller and awaits each call, so calls do not overlap; a step ends  *)
(* at each awaited Forge call, and the clock may advance in between.       *)

\* constructor arguments explored (check_runs.py passes LOG_FETCH_PER_MIN)
FetcherSettings == { <<1, 1>>, <<1, 2>>, <<2, 2>> }

\* _allow: now - self._timestamps[0] > 60
expired_at_half(t, stamp) == t - stamp > 30

expired(t, stamp) == t - stamp > 60

\* _allow: the while loop popping the left end of the deque
RECURSIVE popleft_expired(_, _)
popleft_expired(timestamps, t) ==
    IF timestamps # << >> /\ expired(t, Head(timestamps))
    THEN popleft_expired(Tail(timestamps), t)
    ELSE timestamps

\* _allow: the fetcher after the call and what it returned
allow(f) ==
    LET kept == popleft_expired(f.timestamps, f.clock) IN
    IF Len(kept) >= f.per_minute
    THEN [ok |-> FALSE, f |-> [f EXCEPT !.timestamps = kept]]
    ELSE [ok |-> TRUE,
          f |-> [f EXCEPT !.timestamps = Append(kept, f.clock),
                          !.tokens = @ + 1, !.call_tokens = @ + 1]]

\* the Forge call awaited right after a granted token
forge_call(f, pos) == [f EXCEPT !.pos = pos, !.api_calls = Append(@, f.clock)]

\* fetch_run_logs returning; a returned list is a use of the run id
return(f, result, why) ==
    [f EXCEPT !.pos = "idle", !.jobs = << >>, !.call_tokens = 0,
              !.job = 0, !.results = << >>,
              !.used = IF result = "list"
                       THEN SelectSeq(@, LAMBDA r : r # f.run_id) \o <<f.run_id>> ELSE @,
              !.last = [NoFetch EXCEPT !.run_id = f.run_id, !.result = result,
                                       !.hit = (why = "hit"), !.denied = (why = "denied"),
                                       !.raised = (why = "raised"),
                                       !.tokens = f.call_tokens,
                                       !.broke = f.lists /\ why = "break",
                                       !.logs = IF why = "hit" THEN f.stored[f.run_id]
                                                ELSE IF result = "list" THEN f.results
                                                ELSE << >>]]

\* _cache_put followed by return results
cache_put(cache, run_id, cache_size) ==
    LET moved == SelectSeq(cache, LAMBDA r : r # run_id) \o <<run_id>>
    IN  IF Len(moved) > cache_size THEN Tail(moved) ELSE moved

return_results(f, why) ==
    LET after == cache_put(f.cache, f.run_id, f.cache_size)
        gone == { f.cache[i] : i \in DOMAIN f.cache } \ { after[i] : i \in DOMAIN after }
        cached == SelectSeq(f.used, LAMBDA r : \E i \in DOMAIN f.cache : f.cache[i] = r)
        g == return([f EXCEPT !.cache = after,
                              !.stored = [r \in LogRunIds |->
                                            IF ~f.lists \/ r \in gone THEN << >>
                                            ELSE IF r = f.run_id THEN f.results
                                            ELSE @[r]],
                              !.partial = IF ~f.lists THEN {}
                                          ELSE ((@ \ gone) \ {f.run_id}) \cup
                                               (IF why = "break" THEN {f.run_id} ELSE {})],
                    "list", why)
    IN  [g EXCEPT !.last.evicted = IF gone = {} THEN 0 ELSE CHOOSE r \in gone : TRUE,
                  !.last.lru = IF gone = {} THEN 0 ELSE Head(cached)]

\* the for loop over jobs up to its next await: a job without id is skipped,
\* a refused token breaks the loop
RECURSIVE next_job_none_on_break(_)
next_job_none_on_break(f) ==
    IF f.jobs = << >> THEN return_results(f, "done")
    ELSE IF ~Head(f.jobs)
    THEN next_job_none_on_break([f EXCEPT !.jobs = Tail(@), !.job = IF f.lists THEN @ + 1 ELSE @])
    ELSE LET a == allow(f) IN
         IF ~a.ok THEN return(a.f, "nil", "break")
         ELSE forge_call([a.f EXCEPT !.jobs = Tail(@), !.job = IF f.lists THEN @ + 1 ELSE @], "get_job_logs")

RECURSIVE next_job(_)
next_job(f) ==
    IF f.jobs = << >> THEN return_results(f, "done")
    ELSE IF ~Head(f.jobs) THEN next_job([f EXCEPT !.jobs = Tail(@), !.job = IF f.lists THEN @ + 1 ELSE @])
    ELSE LET a == allow(f) IN
         IF ~a.ok THEN return_results(a.f, "break")
         ELSE forge_call([a.f EXCEPT !.jobs = Tail(@), !.job = IF f.lists THEN @ + 1 ELSE @], "get_job_logs")

cache_hit_when_complete(f, run_id) ==
    /\ \E i \in DOMAIN f.cache : f.cache[i] = run_id
    /\ run_id \notin f.partial

\* if run_id in self._cache
cache_hit(f, run_id) == \E i \in DOMAIN f.cache : f.cache[i] = run_id

\* fetch_run_logs up to its first await
fetch_run_logs(run_id) ==
    /\ fetcher.pos = "idle"
    /\ fetcher.fetches < MaxFetches
    /\ LET f == [fetcher EXCEPT !.run_id = run_id, !.fetches = @ + 1, !.call_tokens = 0]
           a == allow(f)
       IN  fetcher' =
             IF cache_hit(f, run_id)
             THEN return(f, "list", "hit")
             ELSE IF ~a.ok THEN return(a.f, "nil", "denied")
             ELSE forge_call(a.f, "list_jobs_for_workflow_run")
    /\ UNCHANGED <<coreVars, sse, det, lateVars>>

\* list_jobs_for_workflow_run raises, or answers with jobs (TRUE: the job has an id)
list_jobs_returns ==
    /\ fetcher.pos = "list_jobs_for_workflow_run"
    /\ \/ fetcher' = return(fetcher, "nil", "raised")
       \/ \E n \in 0 .. MaxJobs : \E jobs \in [1 .. n -> BOOLEAN] :
             fetcher' = next_job([fetcher EXCEPT !.jobs = jobs])
    /\ UNCHANGED <<coreVars, sse, det, lateVars>>

\* get_job_logs answers with a text, which is appended to results, or with an
\* empty text or an exception: either way the loop goes on
get_job_logs_returns ==
    /\ fetcher.pos = "get_job_logs"
    /\ \E text \in (IF fetcher.lists THEN BOOLEAN ELSE {FALSE}) :
          fetcher' = next_job([fetcher EXCEPT !.results =
                                  IF text THEN Append(@, fetcher.job) ELSE @])
    /\ UNCHANGED <<coreVars, sse, det, lateVars>>

\* time.time() moves on
FetcherTick ==
    /\ fetcher.ticks < MaxTicks
    /\ \E d \in {30, 31} :
          fetcher' = [fetcher EXCEPT !.clock = @ + d, !.ticks = @ + 1]
    /\ UNCHANGED <<coreVars, sse, det, lateVars>>

FetcherInit ==
    /\ sse = NoSubscribers
    /\ det = NoDetection
    /\ LateIdle
    /\ \E s \in FetcherSettings : fetcher = NewFetcher(s[1], s[2])
    /\ StoreEmpty
    /\ PollIdle
    /\ FanEmpty
    /\ CorrIdle
    /\ script = "free"

\* one fetcher with room for two tokens a minute, its lists followed
PartialInit ==
    /\ sse = NoSubscribers
    /\ det = NoDetection
    /\ LateIdle
    /\ fetcher = [NewFetcher(2, 2) EXCEPT !.lists = TRUE]
    /\ StoreEmpty
    /\ PollIdle
    /\ FanEmpty
    /\ CorrIdle
    /\ script = "free"

SpecPartial ==
    PartialInit /\ [][ \/ \E run_id \in {1, 2} : fetch_run_logs(run_id)
                       \/ list_jobs_returns
                       \/ get_job_logs_returns
                       \/ FetcherTick ]_vars

SpecFetcher ==
    FetcherInit /\ [][ \/ \E run_id \in LogRunIds : fetch_run_logs(run_id)
                       \/ list_jobs_returns
                       \/ get_job_logs_returns
                       \/ FetcherTick ]_vars

----------------------------------------------------------------------------
(* Part 7: the workflow detectors (signals/workflow_exfiltration.py).  A   *)
(* workflow text is a sequence of lines, named by their key in             *)
(* WorkflowLines; a line is a sequence of tokens.  A token is a word, or a *)
(* secrets reference: ref is "expr" for ${{ secrets.NAME }} and "bare" for *)
(* secrets.NAME, and NAME is head \o tail, head being the longest prefix   *)
(* of NAME made of the characters [A-Z0-9_].  The Forge calls of the       *)
(* detectors are modelled in Part 3; here their answers are inputs.        *)

GHOSTACTION_SCORE_THRESHOLD == 60

WorkflowLines ==
    LET W(w) == [w |-> w, ref |-> "none", head |-> "", tail |-> ""]
        R(ref, head, tail) == [w |-> "secrets", ref |-> ref, head |-> head, tail |-> tail]
    IN  [ trigger     |-> <<W("on:"), W("pull_request_target")>>,
          permissions |-> <<W("contents: write")>>,
          runner      |-> <<W("runs-on:"), W("self-hosted")>>,
          curl_ioc    |-> <<W("curl"), W("-X POST"),
                            W("https://bold-dhawan.45-139-104-115.plesk.page/collect")>>,
          echo_secret |-> <<W("echo"), R("expr", "PROD_KEY", "")>>,
          curl_lower  |-> <<W("curl"), W("-X POST"), W("https://evil.example/c"),
                            R("expr", "", "prod_key")>>,
          echo_base64 |-> <<W("echo"), R("expr", "NPM_TOKEN", ""), W("base64")>>,
          echo_docker |-> <<W("echo"), R("expr", "DOCKERHUB_TOKEN", "")>>,
          if_bare     |-> <<W("if:"), R("bare", "NPM_TOKEN", "")>>,
          ioc_name    |-> <<W("name:"), W("Github Actions Security")>>,
          tojson      |-> <<W("echo"), W("toJSON(secrets)")>>,
          curl_github |-> <<W("curl"), W("https://api.github.com/x")>>,
          hello       |-> <<W("echo"), W("hello")>> ]

\* the words each pattern matches; SUSPICIOUS_STEPS lists the words whose lower
\* case holds "security", "audit" or "scanner"
Patterns ==
    [ EXFIL_TOOL_RE        |-> {"curl"},
      POST_FLAG_RE         |-> {"-X POST"},
      BASE64_RE            |-> {"base64"},
      TRIGGER_RE           |-> {"pull_request_target"},
      PERMISSIONS_WRITE_RE |-> {"contents: write"},
      RUNNER_RE            |-> {"self-hosted"},
      TOJSON_SECRETS_RE    |-> {"toJSON(secrets)"},
      URL_RE               |-> {"https://bold-dhawan.45-139-104-115.plesk.page/collect",
                                "https://evil.example/c", "https://api.github.com/x"},
      SUSPICIOUS_STEPS     |-> {"Github Actions Security"},
      IOC_WORKFLOW_NAME    |-> {"Github Actions Security"} ]

\* urlparse(u).netloc.lower() of the URLs above, SAFE_DOMAINS and the IOC test
\* (d in IOC_DOMAINS or d.endswith(".plesk.page"))
Urls ==
    { [url |-> "https://bold-dhawan.45-139-104-115.plesk.page/collect",
       domain |-> "bold-dhawan.45-139-104-115.plesk.page", safe |-> FALSE, ioc |-> TRUE],
      [url |-> "https://evil.example/c", domain |-> "evil.example", safe |-> FALSE, ioc |-> FALSE],
      [url |-> "https://api.github.com/x", domain |-> "api.github.com", safe |-> TRUE, ioc |-> FALSE] }

\* re.findall(text): the matches, each with its place (line, token).
\* SECRET_RE = secrets\.([A-Z0-9_]+) matches a reference whose name starts with
\* such a character; SECRET_EXPR_RE = \$\{\{\s*secrets\.([A-Z0-9_]+)\s*\}\}
\* matches an expression whose whole name is made of them
findall(re, text) ==
    { [at |-> p, token |-> WorkflowLines[text[p[1]]][p[2]]] :
        p \in { p \in (DOMAIN text) \X (1 .. 4) :
                   /\ p[2] \in DOMAIN WorkflowLines[text[p[1]]]
                   /\ LET t == WorkflowLines[text[p[1]]][p[2]] IN
                      IF re = "SECRET_RE" THEN t.ref # "none" /\ t.head # ""
                      ELSE IF re = "SECRET_EXPR_RE"
                           THEN t.ref = "expr" /\ t.head # "" /\ t.tail = ""
                           ELSE t.w \in Patterns[re] } }

\* _redact_secrets: SECRET_EXPR_RE.sub, then SECRET_RE.sub; each replaces what
\* it matched, the rest of the name stays
redact_secrets(line) ==
    LET expr_sub == [i \in DOMAIN line |->
                       IF line[i].ref = "expr" /\ line[i].head # "" /\ line[i].tail = ""
                       THEN [line[i] EXCEPT !.head = "REDACTED"] ELSE line[i]]
    IN  [i \in DOMAIN line |->
           IF expr_sub[i].ref # "none" /\ expr_sub[i].head # ""
           THEN [expr_sub[i] EXCEPT !.head = "REDACTED"] ELSE expr_sub[i]]

\* _extract_snippets / _extract_evidence_lines: the first max_lines lines that
\* one of the patterns matches, each redacted
extract(text, res, max_lines) ==
    LET hits == SelectSeq(text, LAMBDA n : \E re \in res : findall(re, <<n>>) # {})
        kept == SubSeq(hits, 1, IF Len(hits) < max_lines THEN Len(hits) ELSE max_lines)
    IN  [i \in DOMAIN kept |-> redact_secrets(WorkflowLines[kept[i]])]

\* _external_domains(URL_RE.findall(text))
external_domains(text) ==
    { u \in Urls : ~u.safe /\ \E m \in findall("URL_RE", text) : m.token.w = u.url }

\* analyze_workflow_text: matched_indicators (_uses_unpinned_action is left
\* out: no line above has uses:)
matched_indicators(text) ==
    { k \in {"secrets_reference", "suspicious_trigger", "permissions_write", "self_hosted_runner",
             "suspicious_step_name", "exfil_tool_with_external_url", "post_body_exfil",
             "known_ioc_domain"} :
        CASE k = "secrets_reference" -> findall("SECRET_RE", text) # {}
          [] k = "suspicious_trigger" -> findall("TRIGGER_RE", text) # {}
          [] k = "permissions_write" -> findall("PERMISSIONS_WRITE_RE", text) # {}
          [] k = "self_hosted_runner" -> findall("RUNNER_RE", text) # {}
          [] k = "suspicious_step_name" -> findall("SUSPICIOUS_STEPS", text) # {}
          [] k = "exfil_tool_with_external_url" ->
                findall("EXFIL_TOOL_RE", text) # {} /\ external_domains(text) # {}
          [] k = "post_body_exfil" -> findall("POST_FLAG_RE", text) # {}
          [] k = "known_ioc_domain" -> \E u \in external_domains(text) : u.ioc }

\* analyze_workflow_text.  score adds, to 8 per secret reference up to 5, the
\* points of every matched indicator: the union below holds points[k] elements
\* for each matched k
analyze_workflow_text(text) ==
    LET secret_ref_count == Cardinality(findall("SECRET_RE", text))
        matched == matched_indicators(text)
        points == [ secrets_reference |-> 0, suspicious_trigger |-> 12, permissions_write |-> 12,
                    self_hosted_runner |-> 10, suspicious_step_name |-> 6,
                    exfil_tool_with_external_url |-> 20, post_body_exfil |-> 10,
                    known_ioc_domain |-> 25 ]
    IN  [ secret_ref_count |-> secret_ref_count,
          external_domains |-> { u.domain : u \in external_domains(text) },
          matched_indicators |-> matched,
          score |-> (IF secret_ref_count < 5 THEN secret_ref_count ELSE 5) * 8
                    + Cardinality(UNION { {k} \X (1 .. points[k]) : k \in matched }),
          snippets |-> extract(text, {"SECRET_RE", "EXFIL_TOOL_RE", "URL_RE", "TRIGGER_RE",
                                      "PERMISSIONS_WRITE_RE"}, 3) ]

\* detect_ghostaction_risk: should_emit
should_emit_on_score_only(secret_ref_count, score) == score >= GHOSTACTION_SCORE_THRESHOLD

should_emit(secret_ref_count, score) ==
    secret_ref_count > 0 \/ score >= GHOSTACTION_SCORE_THRESHOLD

\* detect_ghostaction_risk: all_snippets after the loop over the texts read
RECURSIVE all_snippets(_)
all_snippets(texts) ==
    IF texts = << >> THEN << >>
    ELSE all_snippets(SubSeq(texts, 1, Len(texts) - 1))
             \o analyze_workflow_text(texts[Len(texts)]).snippets

\* detect_ghostaction_risk from the loop over workflow_paths on: the incidents
\* returned, with the fields of conclusion, tags and evidence that depend on
\* the analysis.  secret_ref_count adds up the matches of every text read (a
\* path listed twice is read twice), max_score is the highest score
detect_ghostaction_risk(push) ==
    LET read == SelectSeq(push.workflow_paths, LAMBDA p : push.text[p] # << >>)
        texts == [n \in DOMAIN read |-> push.text[read[n]]]
        secret_ref_count ==
            Cardinality(UNION { {n} \X findall("SECRET_RE", texts[n]) : n \in DOMAIN texts })
        all_indicators ==
            UNION { analyze_workflow_text(texts[n]).matched_indicators : n \in DOMAIN texts }
        scores == { analyze_workflow_text(texts[n]).score : n \in DOMAIN texts } \cup {0}
        max_score == CHOOSE s \in scores : \A t \in scores : t <= s
        snippets == all_snippets(texts)
        severity == IF max_score >= 80 THEN "critical" ELSE "high"
    IN  IF push.workflow_paths = << >> \/ all_indicators = {} THEN << >>
        ELSE IF ~should_emit(secret_ref_count, max_score) THEN << >>
        ELSE << [ kind |-> "ghostaction_risk", conclusion |-> severity,
                  tags |-> {"security", "ghostaction", "risk:" \o severity},
                  score |-> max_score,
                  secret_ref_count |-> secret_ref_count,
                  matched_indicators |-> all_indicators,
                  snippets |-> SubSeq(snippets, 1, IF Len(snippets) < 3 THEN Len(snippets) ELSE 3) ] >>

\* detect_personalized_exfiltration from the check of the SHAs on; known_secrets
\* is what _collect_known_secrets finds in the base text
detect_personalized_exfiltration(push) ==
    LET names(text) == { m.token.head : m \in findall("SECRET_EXPR_RE", text) }
        known_secrets == names(push.base)
        paths == SelectSeq(<<"ci.yml", "release.yml">>,
                           LAMBDA p : \E i \in DOMAIN push.workflow_paths :
                                          push.workflow_paths[i] = p)
        passing == SelectSeq(paths, LAMBDA p :
                       LET text == push.text[p] IN
                       /\ text # << >>
                       /\ findall("EXFIL_TOOL_RE", text) # {}
                       /\ findall("POST_FLAG_RE", text) # {}
                       /\ findall("URL_RE", text) # {}
                       /\ findall("SECRET_RE", text) \cup findall("TOJSON_SECRETS_RE", text) # {})
        incident(p) ==
            LET text == push.text[p]
                overlap == names(text) \cap known_secrets
                confidence ==
                    IF (\E u \in external_domains(text) : u.ioc)
                       \/ findall("IOC_WORKFLOW_NAME", text) # {} THEN "high"
                    ELSE IF overlap # {} \/ findall("BASE64_RE", text) # {}
                            \/ findall("TOJSON_SECRETS_RE", text) # {} THEN "medium"
                    ELSE "low"
            IN  [ kind |-> "personalized_secret_exfiltration", workflow_path |-> p,
                  conclusion |-> confidence, overlap_count |-> Cardinality(overlap),
                  evidence_lines |-> extract(text, {"SECRET_RE", "EXFIL_TOOL_RE", "POST_FLAG_RE",
                                                    "BASE64_RE", "URL_RE", "IOC_WORKFLOW_NAME"}, 8) ]
    IN  IF push.workflow_paths = << >> \/ ~push.after \/ ~push.before THEN << >>
        ELSE [i \in DOMAIN passing |-> incident(passing[i])]

\* the workflow text of scenario S2 (tests/test_ghostaction_risk.py) and the
\* head and base texts of scenario S4 (tests/test_personalized_exfiltration.py)
ScenarioTexts ==
    [ S2 |-> <<"trigger", "permissions", "runner", "curl_ioc", "echo_secret">>,
      S4_head |-> <<"ioc_name", "echo_base64", "curl_ioc">>,
      S4_base |-> <<"echo_base64", "echo_docker">> ]

\* push events analysed: one changed path, the same path in two commits, or two
\* paths; the first text any text of up to MaxLines lines or a scenario text
Pushes ==
    LET lines == {"trigger", "curl_ioc", "echo_secret", "curl_lower", "if_bare", "tojson",
                  "curl_github", "hello"}
        texts == UNION { [1 .. n -> lines] : n \in 0 .. MaxLines }
                    \cup {ScenarioTexts.S2, ScenarioTexts.S4_head}
    IN  { [ workflow_paths |-> w, before |-> b[1], after |-> b[2],
            text |-> [p \in {"ci.yml", "release.yml"} |->
                        IF p = "ci.yml" THEN t
                        ELSE IF w = <<"release.yml", "ci.yml">> THEN u ELSE << >>],
            base |-> k ] :
          w \in { <<"ci.yml">>, <<"ci.yml", "ci.yml">>, <<"release.yml", "ci.yml">> },
          b \in { <<TRUE, TRUE>>, <<FALSE, TRUE>>, <<FALSE, FALSE>> },
          t \in texts,
          u \in { << >>, <<"curl_ioc", "echo_secret">> },
          k \in { << >>, ScenarioTexts.S4_base } }

DetectGhostactionRisk ==
    /\ "ghostaction_risk" \notin det.done
    /\ det' = [det EXCEPT !.done = @ \cup {"ghostaction_risk"},
                          !.ghostaction_risk = detect_ghostaction_risk(det.push)]
    /\ UNCHANGED <<coreVars, sse, fetcher, lateVars>>

DetectPersonalizedExfiltration ==
    /\ "personalized" \notin det.done
    /\ det' = [det EXCEPT !.done = @ \cup {"personalized"},
                          !.personalized = detect_personalized_exfiltration(det.push)]
    /\ UNCHANGED <<coreVars, sse, fetcher, lateVars>>

DetectInit ==
    /\ \E push \in Pushes : det = [NoDetection EXCEPT !.push = push]
    /\ sse = NoSubscribers
    /\ fetcher = NewFetcher(20, 200)
    /\ LateIdle
    /\ StoreEmpty
    /\ PollIdle
    /\ FanEmpty
    /\ CorrIdle
    /\ script = "free"

SpecDetect == DetectInit /\ [][DetectGhostactionRisk \/ DetectPersonalizedExfiltration]_vars

----------------------------------------------------------------------------
(* Part 9: the queues and the workers on their own.  The steps of the      *)
(* workers are those of Part 4.                                            *)

MaxQueue == 2
MaxEnqueues == 3

\* the rows a worker may find: a workflow failure and an ecosystem incident
\* that mentions npm
StoredIncidents ==
    { run_to_incident(1001, 1),
      ecosystem_incident(build_incident("npm_auth_token_expired", << >>, 0, S1Config)) }

\* the writers of a stored row on their own: a store that holds the rows of
\* some incidents built earlier, whose inserts are repeated and whose
\* summary and enrichment are written
ColumnsInit ==
    /\ SideIdle
    /\ PollIdle
    /\ FanEmpty
    /\ CorrIdle
    /\ script = "free"
    /\ built \in SUBSET StoredIncidents
    /\ incidents = { Row(inc) : inc \in built }
    /\ uuid_seq = 0
    /\ ins = NoInsert
    /\ run_inserts = [r \in RunIds |-> << >>]

SpecColumns ==
    ColumnsInit /\ [][ \/ InsertAgain
                       \/ StoreSetSummary
                       \/ StoreStoreSummary
                       \/ StoreSetEnrichment ]_vars

\* SummaryQueue.enqueue / EnrichmentQueue.enqueue called with any incident id
QueueEnqueue ==
    /\ wk.calls < MaxEnqueues
    /\ \E w \in Workers, inc \in StoredIncidents :
          LET before == IF w = "summary_worker" THEN summary_q ELSE enrichment_q
              after == enqueue(before, inc.incident_id, wk.maxsize[w])
          IN  /\ summary_q' = IF w = "summary_worker" THEN after ELSE summary_q
              /\ enrichment_q' = IF w = "osv_worker" THEN after ELSE enrichment_q
              /\ wk' = [wk EXCEPT !.calls = @ + 1,
                                  !.enq = [queue |-> w, incident_id |-> inc.incident_id,
                                           before |-> before]]
    /\ UNCHANGED <<published, fan, storeVars, corrVars, pollVars>>
    /\ UNCHANGED <<sse, fetcher, det, plug, RECENT_REPOS, client, sched, recent_call, fields>>

\* an awaited call of the loop body raises: _fetch_incident (store error,
\* json.loads of a malformed column), _store_summary or set_enrichment (store
\* error).  Neither loop has an except clause, so the coroutine ends
WorkerRaise ==
    \E w \in Workers :
        /\ task[w].pc \in {"fetch", "store"}
        /\ task' = [task EXCEPT ![w].pc = "ended"]
        /\ UNCHANGED <<fanVars, storeVars, corrVars, sideVars>>
        /\ UNCHANGED <<MAX_WORKFLOW_FETCHES_PER_CYCLE, budget, forge_calls, seen_events, poll>>

WorkersInit ==
    /\ \E m \in 1 .. MaxQueue, key \in BOOLEAN :
          wk = [DefaultQueues EXCEPT !.maxsize = [w \in Workers |-> m],
                                     !.ANTHROPIC_API_KEY = key]
    /\ \E incs \in SUBSET StoredIncidents : incidents = { Row(inc) : inc \in incs }
    /\ uuid_seq = 0
    /\ ins = NoInsert
    /\ run_inserts = [r \in RunIds |-> << >>]
    /\ built = {}
    /\ plug = NoLog
    /\ RECENT_REPOS = << >>
    /\ client = NewClient("raises_non_2xx")
    /\ sched = NewScheduler(<< >>, 0)
    /\ recent_call = NoRecentCall
    /\ fields = NoFields
    /\ sse = NoSubscribers
    /\ det = NoDetection
    /\ fetcher = NewFetcher(20, 200)
    /\ PollIdle
    /\ FanEmpty
    /\ CorrIdle
    /\ script = "free"

WorkersInitNoKey == WorkersInit /\ ~wk.ANTHROPIC_API_KEY

SpecWorkers ==
    WorkersInitNoKey /\ [][ \/ QueueEnqueue
                            \/ WorkerDequeue
                            \/ WorkerFetch
                            \/ WorkerStore
                            \/ WorkerPublish
                            \/ WorkerRaise ]_vars

\* the summary worker alone with its queue, no call raising; the event loop
\* runs the worker whenever it can take a step
\* SummaryQueue.enqueue
SummaryEnqueue == QueueEnqueue /\ wk'.enq.queue = "summary_worker"

\* a step of summary_worker_loop
SummaryWorkerStep ==
    /\ WorkerDequeue \/ WorkerFetch \/ WorkerStore \/ WorkerPublish
    /\ task'.osv_worker = task.osv_worker

SpecSummaryWorker ==
    /\ WorkersInit
    /\ [][SummaryEnqueue \/ SummaryWorkerStep]_vars
    /\ WF_vars(SummaryWorkerStep)

----------------------------------------------------------------------------
(* Part 10: GitHubClient.get_json, get_text and get_bytes (github.py), the *)
(* same loop three times.  A step per awaited call: self._client.get and   *)
(* asyncio.sleep.  Durations count quarter seconds.                        *)

MaxRequests == 2

\* range(8)
Attempts == 8

\* what self._client.get may give: a response with one of these status
\* codes, or (0) an exception of the transport (connection error, timeout)
Statuses == {0, 200, 204, 302, 403, 404, 429, 500, 503}

\* resp.status_code in (403, 429) or 500 <= resp.status_code < 600
retryable(status) == status \in {403, 429} \/ (500 <= status /\ status < 600)

\* httpx.Response.raise_for_status: whether it raises
raise_for_status(status, httpx) ==
    IF httpx = "raises_non_2xx" THEN status < 200 \/ status >= 300
    ELSE status >= 400

\* the end of one pass of the loop that neither returned nor slept, and the
\* end of a sleep: the next pass, or after the last pass the closing
\* resp.raise_for_status() and the end of the function
next_pass(c) ==
    IF c.attempts < Attempts THEN [c EXCEPT !.pos = "get"]
    ELSE [c EXCEPT !.pos = "idle",
                   !.result = IF raise_for_status(c.last, c.httpx) THEN "raised"
                              ELSE "none"]

\* get_json / get_text / get_bytes up to the first awaited call
ClientRequest ==
    /\ client.pos = "idle"
    /\ client.requests < MaxRequests
    /\ \E method \in {"get_json", "get_text", "get_bytes"} :
          client' = [NewClient(client.httpx) EXCEPT !.requests = client.requests + 1,
                                                   !.method = method, !.pos = "get"]
    /\ UNCHANGED <<coreVars, sse, fetcher, det, plug, RECENT_REPOS, wk, sched, recent_call, fields>>

\* resp = await self._client.get(url, params=params) and what follows up to
\* the next awaited call.  retry_after is the Retry-After header in quarter
\* seconds (0: absent), jitter is random.uniform(0, delay * 0.25)
ClientGet ==
    /\ client.pos = "get"
    /\ \E status \in Statuses, retry_after \in {0, 8}, jitter \in {0, client.delay \div 4} :
          LET c == [client EXCEPT !.attempts = @ + 1, !.last = status]
          IN  client' =
                IF status = 0 THEN [c EXCEPT !.pos = "idle", !.result = "raised"]
                ELSE IF status = 200 THEN [c EXCEPT !.pos = "idle", !.result = "returned"]
                ELSE IF retryable(status)
                THEN [c EXCEPT !.pos = "sleep",
                               !.sleep_s = IF retry_after # 0 THEN retry_after
                                           ELSE c.delay + jitter]
                ELSE IF raise_for_status(status, c.httpx)
                THEN [c EXCEPT !.pos = "idle", !.result = "raised"]
                ELSE next_pass(c)
    /\ UNCHANGED <<coreVars, sse, fetcher, det, plug, RECENT_REPOS, wk, sched, recent_call, fields>>

\* await asyncio.sleep(sleep_s); delay *= 2; continue
ClientSleep ==
    /\ client.pos = "sleep"
    /\ client' = next_pass([client EXCEPT !.delay = @ * 2, !.sleeps = @ + 1])
    /\ UNCHANGED <<coreVars, sse, fetcher, det, plug, RECENT_REPOS, wk, sched, recent_call, fields>>

ClientInit ==
    /\ \E httpx \in {"raises_non_2xx", "raises_4xx_5xx"} : client = NewClient(httpx)
    /\ sched = NewScheduler(<< >>, 0)
    /\ recent_call = NoRecentCall
    /\ fields = NoFields
    /\ plug = NoLog
    /\ RECENT_REPOS = << >>
    /\ wk = DefaultQueues
    /\ sse = NoSubscribers
    /\ det = NoDetection
    /\ fetcher = NewFetcher(20, 200)
    /\ StoreEmpty
    /\ PollIdle
    /\ FanEmpty
    /\ CorrIdle
    /\ script = "free"

SpecClient == ClientInit /\ [][ClientRequest \/ ClientGet \/ ClientSleep]_vars

----------------------------------------------------------------------------
(* Part 11: RepoScheduler (repos.py).  last_checked is the dict as a set   *)
(* of <<repo, time>> pairs, one per key.                                   *)

MaxSchedTicks == 3    \* advances of the clock
MaxSchedQueue == 2    \* entries of RepoScheduler.queue
MaxBatches == 2       \* next_batch calls

\* the lists handed to the constructor
HighTraffic == { << >>, <<"a/x">>, <<"a/x", "a/x">>, <<"repo", "b/y", "a/x">> }

\* self.last_checked.get(r, 0)
last_checked_get(last_checked, r) ==
    IF \E p \in last_checked : p[1] = r
    THEN (CHOOSE p \in last_checked : p[1] = r)[2]
    ELSE 0

\* self.last_checked[r] = now
last_checked_set(last_checked, r, time_now) ==
    { p \in last_checked : p[1] # r } \cup { <<r, time_now>> }

due_always(last_checked, r, time_now, min_interval) == TRUE

\* now - self.last_checked.get(r, 0) >= self.min_interval
due(last_checked, r, time_now, min_interval) ==
    time_now - last_checked_get(last_checked, r) >= min_interval

\* picked.append(r); seen.add(r); self.last_checked[r] = now
pick(st, r, time_now) ==
    [st EXCEPT !.picked = Append(@, r),
               !.last_checked = last_checked_set(@, r, time_now)]

RECURSIVE high_traffic_first(_, _, _, _, _)
\* 1) high-traffic first: the for loop over what is left of self.high_traffic.
\* seen holds exactly the repos of picked
high_traffic_first(left, st, time_now, max_repos, min_interval) ==
    IF left = << >> \/ Len(st.picked) >= max_repos THEN st
    ELSE LET r == Head(left)
         IN  high_traffic_first(Tail(left),
                 IF /\ \A i \in DOMAIN st.picked : st.picked[i] # r
                    /\ due(st.last_checked, r, time_now, min_interval)
                 THEN pick(st, r, time_now) ELSE st,
                 time_now, max_repos, min_interval)

RECURSIVE fill_from_queue(_, _, _, _)
\* 2) fill from recent queue: popleft until picked is full or the queue empty
fill_from_queue(st, time_now, max_repos, min_interval) ==
    IF ~(Len(st.picked) < max_repos /\ st.queue # << >>) THEN st
    ELSE LET r == Head(st.queue)
             popped == [st EXCEPT !.queue = Tail(@)]
         IN  fill_from_queue(
                 IF /\ \A i \in DOMAIN st.picked : st.picked[i] # r
                    /\ due(st.last_checked, r, time_now, min_interval)
                 THEN pick(popped, r, time_now) ELSE popped,
                 time_now, max_repos, min_interval)

\* next_batch: the picked list, the queue and last_checked it leaves
next_batch(s, max_repos) ==
    fill_from_queue(
        high_traffic_first(s.high_traffic,
            [picked |-> << >>, queue |-> s.queue, last_checked |-> s.last_checked],
            s.time, max_repos, s.min_interval),
        s.time, max_repos, s.min_interval)

\* RepoScheduler.add_recent_repo
SchedAddRecentRepo ==
    /\ Len(sched.queue) < MaxSchedQueue
    /\ \E repo_full_name \in RepoNames \cup Slashless \cup {NULL} :
          sched' = IF repo_full_name = NULL \/ repo_full_name \in Slashless THEN sched
                   ELSE [sched EXCEPT !.queue = Append(@, repo_full_name)]
    /\ UNCHANGED <<coreVars, sse, fetcher, det, plug, RECENT_REPOS, wk, client, recent_call, fields>>

\* RepoScheduler.next_batch
SchedNextBatch ==
    /\ sched.batches < MaxBatches
    /\ \E max_repos \in 0 .. Cardinality(RepoNames) :
          LET st == next_batch(sched, max_repos)
          IN  sched' = [sched EXCEPT
                  !.queue = st.queue,
                  !.last_checked = st.last_checked,
                  !.max_repos = max_repos,
                  !.batch = st.picked,
                  !.batches = @ + 1,
                  !.returned = [r \in RepoNames |->
                                  IF \E i \in DOMAIN st.picked : st.picked[i] = r
                                  THEN Append(sched.returned[r], sched.time)
                                  ELSE sched.returned[r]]]
    /\ UNCHANGED <<coreVars, sse, fetcher, det, plug, RECENT_REPOS, wk, client, recent_call, fields>>

\* time passes between two calls
SchedTick ==
    /\ sched.time < MaxInterval + MaxSchedTicks
    /\ sched' = [sched EXCEPT !.time = @ + 1]
    /\ UNCHANGED <<coreVars, sse, fetcher, det, plug, RECENT_REPOS, wk, client, recent_call, fields>>

SchedInit ==
    /\ \E high_traffic \in HighTraffic, min_interval_seconds \in 0 .. MaxInterval :
          sched = NewScheduler(high_traffic, min_interval_seconds)
    /\ recent_call = NoRecentCall
    /\ fields = NoFields
    /\ client = NewClient("raises_non_2xx")
    /\ plug = NoLog
    /\ RECENT_REPOS = << >>
    /\ wk = DefaultQueues
    /\ sse = NoSubscribers
    /\ det = NoDetection
    /\ fetcher = NewFetcher(20, 200)
    /\ StoreEmpty
    /\ PollIdle
    /\ FanEmpty
    /\ CorrIdle
    /\ script = "free"

SpecSched == SchedInit /\ [][SchedAddRecentRepo \/ SchedNextBatch \/ SchedTick]_vars

----------------------------------------------------------------------------
(* Part 12: add_recent_repo (poll_events.py) on its own.  The first names  *)
(* are drawn freely; from then on the name is fixed by the length of the   *)
(* buffer, so that neighbours differ and the buffer can be filled past its *)
(* cap.                                                                    *)

MaxFreeNames == 2

RecentNames == <<"a/x", "b/y", "c/z">>

\* add_recent_repo(repo_full_name)
RecentAdd ==
    /\ \E repo_full_name \in
            (IF Len(RECENT_REPOS) < MaxFreeNames
             THEN { RecentNames[i] : i \in DOMAIN RecentNames }
             ELSE { RecentNames[(Len(RECENT_REPOS) % Len(RecentNames)) + 1] })
            \cup Slashless \cup {NULL} :
          /\ RECENT_REPOS' = add_recent_repo(RECENT_REPOS, repo_full_name)
          /\ recent_call' = [repo_full_name |-> repo_full_name, before |-> RECENT_REPOS]
    /\ UNCHANGED <<coreVars, sse, fetcher, det, plug, wk, client, sched, fields>>

RecentInit ==
    /\ RECENT_REPOS = << >>
    /\ recent_call = NoRecentCall
    /\ fields = NoFields
    /\ sched = NewScheduler(<< >>, 0)
    /\ client = NewClient("raises_non_2xx")
    /\ plug = NoLog
    /\ wk = DefaultQueues
    /\ sse = NoSubscribers
    /\ det = NoDetection
    /\ fetcher = NewFetcher(20, 200)
    /\ StoreEmpty
    /\ PollIdle
    /\ FanEmpty
    /\ CorrIdle
    /\ script = "free"

SpecRecent == RecentInit /\ [][RecentAdd]_vars

----------------------------------------------------------------------------
(* Part 13: incident_fields.py applied to drawn arguments *)

MaxTags == 2

\* the kinds the producers use and one no producer uses
Kinds ==
    { "ecosystem_incident", "ghostaction_risk", "personalized_secret_exfiltration",
      "workflow_failure", "other" }

\* tags, as the words they are made of
TagPool ==
    { <<"npm">>, <<"NPM">>, <<"signature:", "npm", "_auth_token_expired">>,
      <<"Dependency", "-review">>, <<"workflow">> }

RECURSIVE TagLists(_)
\* the tag lists of at most n tags
TagLists(n) ==
    IF n = 0 THEN { << >> }
    ELSE TagLists(n - 1) \cup
           { Append(tags, tag) : tags \in { t \in TagLists(n - 1) : Len(t) = n - 1 },
                                 tag \in TagPool }

\* logins, as the words they are made of
Logins == { << >>, <<"octocat">>, <<"dependabot", "[bot]">>, <<"Renovate", "[BOT]">>,
            <<"[bot]", "-fan">> }

\* actor_context["type"]; NULL also stands for no actor_context
ActorTypes == { NULL, "User", "Bot", "bot", "Organization", "org" }

FieldsDerive ==
    /\ ~fields.done
    /\ fields' = [fields EXCEPT
          !.done = TRUE,
          !.scope = derive_scope(fields.kind),
          !.surface = derive_surface(fields.kind, fields.tags),
          !.actor = derive_actor(fields.evidence)]
    /\ UNCHANGED <<coreVars, sse, fetcher, det, plug, RECENT_REPOS, wk, client, sched, recent_call>>

FieldsInit ==
    /\ \E kind \in Kinds, tags \in TagLists(MaxTags), actor \in Logins,
          actor_login \in {<< >>, <<"app", "[bot]">>}, actor_context \in ActorTypes :
          fields = [NoFields EXCEPT !.kind = kind, !.tags = tags,
                       !.evidence = Evidence(actor, actor_login, actor_context)]
    /\ recent_call = NoRecentCall
    /\ RECENT_REPOS = << >>
    /\ sched = NewScheduler(<< >>, 0)
    /\ client = NewClient("raises_non_2xx")
    /\ plug = NoLog
    /\ wk = DefaultQueues
    /\ sse = NoSubscribers
    /\ det = NoDetection
    /\ fetcher = NewFetcher(20, 200)
    /\ StoreEmpty
    /\ PollIdle
    /\ FanEmpty
    /\ CorrIdle
    /\ script = "free"

SpecFields == FieldsInit /\ [][FieldsDerive]_vars

----------------------------------------------------------------------------
(* Part 8: NpmAuthTokenExpiredPlugin (plugins/npm_auth_token_expired.py).  *)
(* A log text is a sequence of lines, named by their key in NpmLogLines; a *)
(* line is what raw_line.strip() leaves, a sequence of segments.  ts marks *)
(* the leading segment that _TS_RE matches (a bracketed group or a         *)
(* timestamp).                                                             *)

MaxLogLines == 3

NpmLogLines ==
    LET T(w) == [w |-> w, ts |-> TRUE]
        W(w) == [w |-> w, ts |-> FALSE]
    IN  [ expired      |-> <<W("access token expired or revoked")>>,
          unable       |-> <<T("[12:00:01]"), W("npm ERR! Unable to authenticate")>>,
          e401_code    |-> <<T("2024-01-01T00:00:01Z"), W("npm ERR! code E401")>>,
          e401_upper   |-> <<W("NPM ERR! CODE E401")>>,
          unauthorized |-> <<W("E401 Unauthorized")>>,
          bracketed    |-> <<T("[E401 Unauthorized]")>>,
          blank        |-> << >>,
          other        |-> <<W("other line")>> ]

\* re.search(line) for the four patterns, all compiled with re.IGNORECASE
search(re, line) ==
    \E i \in DOMAIN line :
        line[i].w \in
            CASE re = "_EXPIRED_RE" -> {"access token expired or revoked"}
              [] re = "_UNABLE_AUTH_RE" -> {"npm ERR! Unable to authenticate"}
              [] re = "_E401_CODE_RE" -> {"npm ERR! code E401", "NPM ERR! CODE E401"}
              [] re = "_E401_UNAUTHORIZED_RE" -> {"E401 Unauthorized", "[E401 Unauthorized]"}

\* _normalize_line: _TS_RE.sub removes the leading group, the rest is kept
\* (no line here is longer than 200 characters)
normalize_line(line) == SelectSeq(line, LAMBDA seg : ~seg.ts)

\* match: the first non-empty line that one of the four patterns matches
\* decides (break), and an empty matched_line returns None
match(log_text) ==
    LET strong(n) == \/ search("_EXPIRED_RE", NpmLogLines[n])
                     \/ search("_UNABLE_AUTH_RE", NpmLogLines[n])
        weak(n) == \/ search("_E401_CODE_RE", NpmLogLines[n])
                   \/ search("_E401_UNAUTHORIZED_RE", NpmLogLines[n])
        hits == SelectSeq(log_text,
                          LAMBDA n : NpmLogLines[n] # << >> /\ (strong(n) \/ weak(n)))
    IN  IF hits = << >> \/ normalize_line(NpmLogLines[Head(hits)]) = << >>
        THEN NoLog.match
        ELSE [ signature |-> "npm_auth_token_expired",
               confidence |-> IF strong(Head(hits)) THEN 90 ELSE 70,
               matched_line |-> normalize_line(NpmLogLines[Head(hits)]) ]

\* the logs handed to the plugin: up to MaxLogLines lines
Logs == UNION { [1 .. n -> DOMAIN NpmLogLines] : n \in 0 .. MaxLogLines }

PluginMatch ==
    /\ ~plug.done
    /\ plug' = [plug EXCEPT !.done = TRUE, !.match = match(plug.log_text)]
    /\ UNCHANGED <<coreVars, sse, fetcher, det, RECENT_REPOS, wk, client, sched, recent_call, fields>>

PluginInit ==
    /\ \E log_text \in Logs : plug = [NoLog EXCEPT !.log_text = log_text]
    /\ RECENT_REPOS = << >>
    /\ wk = DefaultQueues
    /\ client = NewClient("raises_non_2xx")
    /\ sched = NewScheduler(<< >>, 0)
    /\ recent_call = NoRecentCall
    /\ fields = NoFields
    /\ sse = NoSubscribers
    /\ det = NoDetection
    /\ fetcher = NewFetcher(20, 200)
    /\ StoreEmpty
    /\ PollIdle
    /\ FanEmpty
    /\ CorrIdle
    /\ script = "free"

SpecPlugin == PluginInit /\ [][PluginMatch]_vars

----------------------------------------------------------------------------
(* Claims about the correlator, checked under SpecCorrelator *)

\* C1: under a non-decreasing clock, any two ingest calls that returned a
\* bundle for the same signature are at least cooldown minutes apart.
C1_CooldownSpacing ==
    \A s \in Signatures :
        \A i, j \in DOMAIN emits[s] :
            i < j => emits[s][j] - emits[s][i] >= cfg.cooldown

C1_Witness ==
    \E s \in Signatures : Len(emits[s]) >= 2

\* C2: the latest ingest returned a bundle exactly when the entries of its
\* signature, after pruning and appending, cover min_repos repos and
\* min_owners owners and no bundle was emitted before or the cooldown has
\* elapsed; in scenario S1 (window 60, 5 repos, 3 owners, cooldown 30) only
\* the fifth and the seventh call return a bundle.
C2_BundleIff ==
    /\ Len(results) > 0 =>
          LET es == entries[call.signature]
              repos == { es[i].repo_full_name : i \in DOMAIN es }
              owners == { es[i].owner : i \in DOMAIN es }
          IN  ret.bundle <=>
                 /\ Cardinality(repos) >= cfg.min_repos
                 /\ Cardinality(owners) >= cfg.min_owners
                 /\ \/ call.prev_emit = NoEmit
                    \/ call.at - call.prev_emit >= cfg.cooldown
    /\ script = "S1" =>
          \A i \in DOMAIN results : results[i] <=> i \in {5, 7}

C2_Witness ==
    script = "S1" /\ Len(results) = 7 /\ ret.bundle /\ call.prev_emit # NoEmit

\* C3: whenever ingest returns a bundle, every entry it counted, the entry
\* being ingested included, occurred no earlier than window minutes before
\* the clock value of the call.
C3_CountedWithinWindow ==
    ret.bundle =>
        \A i \in DOMAIN entries[ret.signature] :
            entries[ret.signature][i].occurred_at >= ret.created_at - cfg.window


----------------------------------------------------------------------------
\* C4: whatever inserts have been made, the store holds at most one row per
\* incident_id, per run_id and per non-null dedupe_key; and an insert whose
\* dedupe_key was already stored leaves every row as it was and adds none.
C4_StoreUnique ==
    /\ \A r1, r2 \in incidents :
          ( \/ r1.incident_id = r2.incident_id
            \/ r1.run_id = r2.run_id
            \/ r1.dedupe_key # NULL /\ r1.dedupe_key = r2.dedupe_key ) => r1 = r2
    /\ ( /\ ins.inc.dedupe_key # NULL
         /\ \E r \in ins.before : r.dedupe_key = ins.inc.dedupe_key )
          => ins.after = ins.before /\ ~ins.ok

C4_Witness ==
    /\ ins.inc.dedupe_key # NULL
    /\ ~ins.db_error
    /\ \E r \in ins.before : r.dedupe_key = ins.inc.dedupe_key /\ r.summary # NULL
    /\ Cardinality(incidents) >= 2

\* C5: insert_incident returns true exactly when the call added a row (and
\* then that row is the incident's).  When the incident of one workflow run
\* is built twice by run_to_incident and inserted twice, the store raising no
\* error, the first insert returns true, the second false, and one row of
\* that run is stored.
C5_InsertedIffNewRow ==
    /\ ins.ok <=> ins.after # ins.before
    /\ ins.ok => ins.after = ins.before \cup {Row(ins.inc)} /\ Row(ins.inc) \notin ins.before
    /\ \A run_id \in RunIds :
          LET h == run_inserts[run_id]
          IN  (Len(h) >= 2 /\ ~h[1].db_error /\ ~h[2].db_error) =>
                 /\ h[1].ok
                 /\ ~h[2].ok
                 /\ Cardinality({ r \in incidents : r.run_id = ToString(run_id) }) = 1

C5_Witness ==
    \E run_id \in RunIds :
        /\ Len(run_inserts[run_id]) >= 2
        /\ ~run_inserts[run_id][1].db_error
        /\ ~run_inserts[run_id][2].db_error
        /\ uuid_seq >= 2

\* C6: two incidents built with the same dedupe_key, by whichever path, carry
\* the same incident_id and the same run_id.
C6_StableIds ==
    \A a, b \in built :
        a.dedupe_key = b.dedupe_key =>
            a.incident_id = b.incident_id /\ a.run_id = b.run_id

----------------------------------------------------------------------------
\* C7: in a poll cycle the Forge calls get_commit, get_contents, get_user and
\* get_collaborator_permission made for all events by both detectors number
\* at most MAX_WORKFLOW_FETCHES_PER_CYCLE; each call has used up one unit of
\* the budget, and the remaining count is never negative.
C7_FetchBudget ==
    LET calls == forge_calls["get_commit"] + forge_calls["get_contents"]
                    + forge_calls["get_user"]
                    + forge_calls["get_collaborator_permission"]
    IN  /\ calls <= MAX_WORKFLOW_FETCHES_PER_CYCLE
        /\ budget >= 0
        /\ poll.pc # "sleep" => calls = MAX_WORKFLOW_FETCHES_PER_CYCLE - budget

C7_Witness ==
    /\ MAX_WORKFLOW_FETCHES_PER_CYCLE = DefaultFetches
    /\ budget = 0
    /\ forge_calls["get_user"] >= 1
    /\ forge_calls["get_contents"] >= 3
    /\ forge_calls["none"] >= 2

----------------------------------------------------------------------------
\* C8: every card handed to the broadcaster, the first card of an incident or
\* the follow-up card of a worker, names an incident whose row is in the store.
C8_CardHasRow ==
    \A c \in published : \E row \in incidents : row.incident_id = c.incident_id

C8_Witness ==
    /\ \E c \in published : c.event = "incident"
    /\ \E c \in published : c.event = "summary"
    /\ ~ins.ok
    /\ ins.db_error
    /\ Card(ins.inc.incident_id, "incident") \notin published

\* C9: once a producer is done with an incident it inserted, it has published
\* the card, enqueued the id for summarization, and handed the incident to
\* enrichment (id enqueued or not_applicable written).
C9_FanOutComplete ==
    \A f \in fan :
        f.step = "done" =>
            \A st \in {"card", "summary", "enrichment"} :
                Step(f.incident_id, f.by, st) \in fan

\* C10: a call of process_run_logs_for_signals returns the number of rows it
\* inserted, and has published as many cards, enqueued as many ids for
\* summarization and handed as many incidents to enrichment; a bundle whose
\* insert returned false added to none of these.
C10_EmittedCount ==
    /\ \A r \in task.replay.returns :
          /\ r.ret = r.cnt.inserted
          /\ r.cnt.cards = r.cnt.inserted
          /\ r.cnt.summaries = r.cnt.inserted
          /\ r.cnt.enrichments = r.cnt.inserted
          /\ r.cnt.inserted <= r.cnt.bundles
    /\ LET c == task.replay.cnt
       IN  /\ c.cards <= c.inserted
           /\ c.summaries <= c.inserted
           /\ c.enrichments <= c.inserted
           /\ c.inserted <= c.bundles

C10_Witness ==
    /\ \E r \in task.replay.returns : r.ret = 1 /\ r.cnt.cards = 1
    /\ \E r \in task.replay.returns : r.ret = 0 /\ r.cnt.bundles = 1
----------------------------------------------------------------------------
(* Claims about the broadcaster, checked under SpecSse *)

\* C11: a publish call changes nothing but the subscriber queues: the queue of
\* every registered subscriber gets the card appended when it holds fewer than
\* its capacity and is left as it was when it is full (the card is dropped for
\* that subscriber only); the list of subscribers and every other queue are
\* untouched, and no queue ever holds more than its capacity.
C11_PublishDropsPerQueue ==
    /\ [](\A s \in Subscribers : Len(sse.queue[s]) <= QueueMaxsize)
    /\ [][ sse'.publish_count # sse.publish_count =>
              /\ sse'.subscribers = sse.subscribers
              /\ sse'.received = sse.received
              /\ \A s \in Subscribers :
                    sse'.queue[s] =
                        IF Subscribed(s) /\ Len(sse.queue[s]) < QueueMaxsize
                        THEN Append(sse.queue[s], sse'.publish_count)
                        ELSE sse.queue[s] ]_vars

\* a publish that found one queue full and another with room: the second holds
\* the latest card, the first does not
C11_Witness ==
    \E s, t \in Subscribers :
        /\ Subscribed(s) /\ Subscribed(t)
        /\ Len(sse.queue[s]) = QueueMaxsize
        /\ sse.queue[s][QueueMaxsize] < sse.publish_count
        /\ sse.queue[t] # << >>
        /\ sse.queue[t][Len(sse.queue[t])] = sse.publish_count

\* C12: what a subscriber has been handed, followed by what still waits in its
\* queue, is a subsequence of the published cards in publish order: the card
\* numbers increase strictly (so no card is delivered twice) and every one of
\* them was published.
C12_SubsequenceInOrder ==
    \A s \in Subscribers :
        LET seen == sse.received[s] \o sse.queue[s] IN
        /\ \A i \in DOMAIN seen : seen[i] \in 1 .. sse.publish_count
        /\ \A i, j \in DOMAIN seen : i < j => seen[i] < seen[j]

\* a subscriber that was handed three cards with one dropped in between
C12_Witness ==
    \E s \in Subscribers :
        /\ Len(sse.received[s]) >= 3
        /\ \E i \in 1 .. Len(sse.received[s]) - 1 :
              sse.received[s][i + 1] > sse.received[s][i] + 1

\* C13: once a subscribe generator is closed its queue is not in the list of
\* subscribers and no step adds to it; a step that closes one generator
\* leaves every other subscriber in the list.
C13_ClosedUnsubscribed ==
    /\ [](\A s \in sse.closed : ~Subscribed(s))
    /\ [][ /\ \A s \in sse.closed : sse'.queue[s] = sse.queue[s]
           /\ \A s \in Subscribers \ sse'.closed :
                 Subscribed(s) => \E i \in DOMAIN sse'.subscribers : sse'.subscribers[i] = s
         ]_vars

\* a card published after one subscriber closed with a card still queued: the
\* remaining subscriber holds it, the closed one does not
C13_Witness ==
    \E s \in sse.closed, t \in Subscribers :
        /\ Subscribed(t)
        /\ sse.queue[s] # << >>
        /\ Len(sse.queue[s]) < QueueMaxsize
        /\ sse.queue[s][Len(sse.queue[s])] < sse.publish_count
        /\ sse.queue[t] # << >>
        /\ sse.queue[t][Len(sse.queue[t])] = sse.publish_count

----------------------------------------------------------------------------
(* Claims about the run-log fetcher, checked under SpecFetcher *)

\* C14: under a non-decreasing clock, the Forge calls issued (list-jobs and
\* per-job logs) within any 60 seconds, both ends included, number at most
\* per_minute; every Forge call took exactly one token, and a call answered
\* from the cache took none.
C14_TokenBucket ==
    /\ fetcher.tokens = Len(fetcher.api_calls)
    /\ \A i \in DOMAIN fetcher.api_calls :
          Cardinality({ j \in DOMAIN fetcher.api_calls :
                          /\ fetcher.api_calls[i] <= fetcher.api_calls[j]
                          /\ fetcher.api_calls[j] <= fetcher.api_calls[i] + 60 })
             <= fetcher.per_minute
    /\ fetcher.last.hit => fetcher.last.tokens = 0

\* the bucket was full of the calls of one window, and the next call went out 61
\* seconds after the first of them
C14_Witness ==
    \E i, j \in DOMAIN fetcher.api_calls :
        /\ j = i + fetcher.per_minute
        /\ fetcher.api_calls[j] - fetcher.api_calls[i] = 61

\* C15 as stated: fetch_run_logs returns nil exactly when the token bucket
\* refuses the initial list-jobs call on a cache miss, and a list otherwise.
C15_NilIffRateLimited ==
    fetcher.last.result # "none" =>
        /\ fetcher.last.result \in {"nil", "list"}
        /\ fetcher.last.result = "nil" <=> fetcher.last.denied

\* C15 amended: fetch_run_logs returns nil exactly when, on a cache miss, the
\* token bucket refuses the initial list-jobs call (no token taken) or the
\* list-jobs call raises (its token taken); otherwise it returns a list.
C15_NilIffDeniedOrRaised ==
    fetcher.last.result # "none" =>
        /\ fetcher.last.result \in {"nil", "list"}
        /\ fetcher.last.result = "nil" <=> (fetcher.last.denied \/ fetcher.last.raised)
        /\ fetcher.last.denied => ~fetcher.last.hit /\ fetcher.last.tokens = 0
        /\ fetcher.last.raised => ~fetcher.last.hit /\ fetcher.last.tokens = 1

\* a call that returned nil because list-jobs raised, after one that was refused
\* a token would have been possible: the bucket had room
C15_Witness ==
    /\ fetcher.last.result = "nil"
    /\ fetcher.last.raised
    /\ Len(fetcher.timestamps) <= fetcher.per_minute
    /\ fetcher.timestamps # << >>
    /\ fetcher.timestamps[Len(fetcher.timestamps)] = fetcher.clock

\* C16: the cache never holds more than cache_size entries, and the entry a
\* put evicts is the cached one whose latest use (its put or a later cache
\* hit) lies furthest back.
C16_LruEviction ==
    /\ Len(fetcher.cache) <= fetcher.cache_size
    /\ fetcher.last.evicted # 0 => fetcher.last.evicted = fetcher.last.lru

----------------------------------------------------------------------------
(* Claims about the workflow detectors, checked under SpecDetect *)

\* C17: in every snippet of a ghostaction_risk incident and every evidence line
\* of a personalized-exfiltration incident, every secrets reference, in either
\* form, names REDACTED, whatever the workflow text and the secret's name.
C17_EvidenceRedacted ==
    LET redacted(lines) ==
            \A l \in DOMAIN lines : \A i \in DOMAIN lines[l] :
                lines[l][i].ref # "none" => lines[l][i].head \o lines[l][i].tail = "REDACTED"
    IN  /\ \A n \in DOMAIN det.ghostaction_risk : redacted(det.ghostaction_risk[n].snippets)
        /\ \A n \in DOMAIN det.personalized : redacted(det.personalized[n].evidence_lines)

\* C18: detect_ghostaction_risk returns one incident when some analysed workflow
\* file matched an indicator and either a secret reference was counted in one of
\* them or the highest score among them reaches GHOSTACTION_SCORE_THRESHOLD, and
\* none otherwise; the incident is critical when that score is at least 80 and
\* high below.
C18_EmitRule ==
    "ghostaction_risk" \in det.done =>
        LET push == det.push
            analysed == { analyze_workflow_text(push.text[push.workflow_paths[i]]) :
                            i \in { j \in DOMAIN push.workflow_paths :
                                      push.text[push.workflow_paths[j]] # << >> } }
            matched == \E a \in analysed : a.matched_indicators # {}
            secret_seen == \E a \in analysed : a.secret_ref_count > 0
            reaches(n) == \E a \in analysed : a.score >= n
        IN  /\ Len(det.ghostaction_risk) =
                 IF matched /\ (secret_seen \/ reaches(GHOSTACTION_SCORE_THRESHOLD)) THEN 1 ELSE 0
            /\ \A n \in DOMAIN det.ghostaction_risk :
                 det.ghostaction_risk[n].conclusion = IF reaches(80) THEN "critical" ELSE "high"

\* an incident emitted for its secret reference alone, the score below the
\* threshold, and so of severity high
C18_Witness ==
    /\ Len(det.ghostaction_risk) = 1
    /\ det.ghostaction_risk[1].secret_ref_count > 0
    /\ det.ghostaction_risk[1].score < GHOSTACTION_SCORE_THRESHOLD
    /\ det.ghostaction_risk[1].conclusion = "high"

\* C19: for the push of scenario S2 (one changed workflow file holding, in this
\* order, the pull_request_target trigger, contents: write, the self-hosted
\* runner, the curl -X POST to the plesk.page URL and ${{ secrets.PROD_KEY }})
\* the detector returns one ghostaction_risk incident tagged risk:critical
\* whose snippets hold a secrets reference named REDACTED.
C19_ScenarioS2 ==
    ( /\ "ghostaction_risk" \in det.done
      /\ det.push.workflow_paths = <<"ci.yml">>
      /\ det.push.text["ci.yml"] = ScenarioTexts.S2 ) =>
        /\ Len(det.ghostaction_risk) = 1
        /\ det.ghostaction_risk[1].kind = "ghostaction_risk"
        /\ "risk:critical" \in det.ghostaction_risk[1].tags
        /\ \E l \in DOMAIN det.ghostaction_risk[1].snippets :
              \E i \in DOMAIN det.ghostaction_risk[1].snippets[l] :
                 LET t == det.ghostaction_risk[1].snippets[l][i]
                 IN  t.ref # "none" /\ t.head \o t.tail = "REDACTED"

\* C20: detect_personalized_exfiltration returns nothing when before or after
\* is missing, and otherwise exactly one incident for every distinct changed
\* path whose head text holds an exfil tool, a POST flag, a URL and a secrets
\* reference or toJSON(secrets); its confidence is high with an IOC domain or
\* the IOC workflow name, else medium with a non-empty overlap, base64 or
\* toJSON(secrets), else low; its overlap_count is the number of secret names
\* referenced both in the head text and in the base text.
C20_PersonalizedRule ==
    "personalized" \in det.done =>
        LET push == det.push
            words(text) == { WorkflowLines[text[l]][i].w :
                               <<l, i>> \in { p \in (DOMAIN text) \X (1 .. 4) :
                                                p[2] \in DOMAIN WorkflowLines[text[p[1]]] } }
            referenced(text) ==
                { WorkflowLines[text[p[1]]][p[2]].head \o WorkflowLines[text[p[1]]][p[2]].tail :
                    p \in { q \in (DOMAIN text) \X (1 .. 4) :
                              /\ q[2] \in DOMAIN WorkflowLines[text[q[1]]]
                              /\ WorkflowLines[text[q[1]]][q[2]].ref # "none" } }
            gate(text) ==
                /\ "curl" \in words(text)
                /\ "-X POST" \in words(text)
                /\ words(text) \cap Patterns.URL_RE # {}
                /\ referenced(text) # {} \/ "toJSON(secrets)" \in words(text)
            expected == IF push.before /\ push.after
                        THEN { p \in {"ci.yml", "release.yml"} :
                                 /\ \E i \in DOMAIN push.workflow_paths : push.workflow_paths[i] = p
                                 /\ gate(push.text[p]) }
                        ELSE {}
            overlap(text) == referenced(text) \cap referenced(push.base)
            confidence(text) ==
                IF "https://bold-dhawan.45-139-104-115.plesk.page/collect" \in words(text)
                   \/ "Github Actions Security" \in words(text) THEN "high"
                ELSE IF overlap(text) # {} \/ "base64" \in words(text)
                        \/ "toJSON(secrets)" \in words(text) THEN "medium"
                ELSE "low"
        IN  /\ { det.personalized[n].workflow_path : n \in DOMAIN det.personalized } = expected
            /\ Len(det.personalized) = Cardinality(expected)
            /\ \A n \in DOMAIN det.personalized :
                 LET text == push.text[det.personalized[n].workflow_path] IN
                 /\ det.personalized[n].conclusion = confidence(text)
                 /\ det.personalized[n].overlap_count = Cardinality(overlap(text))


----------------------------------------------------------------------------
(* Claims about the plugin, checked under SpecPlugin *)

\* C21: match returns confidence 0.9 whenever some line of the log matches
\* "access token expired or revoked" or "npm ERR! Unable to authenticate", 0.7
\* exactly when no line matches those and some line matches "npm ERR! code
\* E401" or "E401 Unauthorized", and None exactly when no line matches any
C21_Confidence ==
    LET any(res) == \E i \in DOMAIN plug.log_text, re \in res :
                        search(re, NpmLogLines[plug.log_text[i]])
        strong == any({"_EXPIRED_RE", "_UNABLE_AUTH_RE"})
        weak == any({"_E401_CODE_RE", "_E401_UNAUTHORIZED_RE"})
    IN  plug.done =>
          /\ strong => plug.match.confidence = 90
          /\ plug.match.confidence = 70 <=> (~strong /\ weak)
          /\ plug.match.signature = "" <=> (~strong /\ ~weak)


----------------------------------------------------------------------------
(* Claims about the poll cycle, checked under SpecPoll *)

\* C22: over any sequence of poll cycles that may return the same events again,
\* table events holds at most one row per event_id; add_recent_repo and
\* detect_ghostaction_risk ran once for each inserted event and
\* detect_personalized_exfiltration at most once, none of them for an event
\* that was not inserted; and the insertion of an event_id already stored
\* leaves the table, the buffer and these counts as they were.
C22_EventsOnce ==
    /\ [](\A id \in EventIds :
            LET c == poll.calls[id]
            IN  /\ c.insert_event = IF id \in seen_events THEN 1 ELSE 0
                /\ c.add_recent_repo = c.insert_event
                /\ c.detect_ghostaction_risk = c.insert_event
                /\ c.detect_personalized_exfiltration <= c.insert_event)
    /\ [][ (poll.pc = "event" /\ Head(poll.evs).id \in seen_events)
             => /\ seen_events' = seen_events
                /\ RECENT_REPOS' = RECENT_REPOS
                /\ poll'.calls = poll.calls ]_vars

\* the batch of e1 and e3 is handled again: e1, stored by an earlier cycle,
\* was refused in this one (no Forge call since the cycle began) and e3 is next
C22_Witness ==
    /\ poll.pc = "event"
    /\ forge_calls = NoCalls
    /\ Len(poll.evs) = 1
    /\ Head(poll.evs).id = "e3"
    /\ {"e1", "e3"} \subseteq seen_events
    /\ Len(RECENT_REPOS) = 2


\* C23: every push event inserted into table events is analysed by both
\* detectors before the cycle ends, and an exception raised while one event
\* is handled leaves no event of the same batch unhandled.
C23_ErrorIsolation ==
    /\ poll.pc = "sleep" =>
          \A id \in seen_events :
              /\ poll.calls[id].detect_ghostaction_risk = 1
              /\ poll.calls[id].detect_personalized_exfiltration = 1
    /\ poll.lost = {}


----------------------------------------------------------------------------
(* Claims about the queues and the workers, checked under SpecWorkers and  *)
(* SpecSummaryWorker                                                       *)

\* C24: a call that raises while a worker handles one incident id does not
\* end the worker: neither summary_worker_loop nor osv_worker_loop ever stops.
C24_WorkersSurvive == \A w \in Workers : task[w].pc # "ended"

\* C29: each queue never holds more than its maxsize; an enqueue appends the
\* id at the tail, or on a full queue returns leaving the queue as it was; a
\* dequeue hands the worker the id at the head.  Ids therefore leave in the
\* order in which they were accepted.
C29_BoundedFifo ==
    /\ [](/\ Len(summary_q) <= wk.maxsize.summary_worker
          /\ Len(enrichment_q) <= wk.maxsize.osv_worker)
    /\ [][ \A w \in Workers :
             LET q == IF w = "summary_worker" THEN summary_q ELSE enrichment_q
                 q_after == IF w = "summary_worker" THEN summary_q' ELSE enrichment_q'
             IN  /\ (wk'.calls # wk.calls /\ wk'.enq.queue = w) =>
                        q_after = IF Len(q) >= wk.maxsize[w] THEN q
                                  ELSE Append(q, wk'.enq.incident_id)
                 /\ (wk'.calls = wk.calls /\ q_after # q) =>
                        /\ q # << >>
                        /\ q_after = Tail(q)
                        /\ task'[w].id = Head(q) ]_vars

\* the summary queue was full when the latest enqueue came, after the worker
\* had taken an id from it
C29_Witness ==
    /\ wk.enq.queue = "summary_worker"
    /\ Len(wk.enq.before) = wk.maxsize.summary_worker
    /\ summary_q = wk.enq.before
    /\ wk.enq.incident_id # summary_q[Len(summary_q)]
    /\ task.summary_worker.pc # "dequeue"

\* C30: with the worker scheduled fairly and no call raising, every id in the
\* summary queue whose row is stored leads to a stored summary that holds
\* root_cause, impact and next_steps; a summary card is published only for a
\* stored row that already holds such a summary, never for an id without a row.
C30_SummaryEventually ==
    LET summarised(id) ==
            \E r \in incidents :
                /\ r.incident_id = id
                /\ {"root_cause", "impact", "next_steps"} \subseteq summary_keys(r.summary)
    IN  /\ [](\A c \in published : c.event = "summary" => summarised(c.incident_id))
        /\ \A inc \in StoredIncidents :
              ( /\ \E i \in DOMAIN summary_q : summary_q[i] = inc.incident_id
                /\ \E r \in incidents : r.incident_id = inc.incident_id )
                 ~> summarised(inc.incident_id)

\* the reply of the LLM was stored and its card published, and an id without
\* a row went through the queue
C30_Witness ==
    /\ \E c \in published :
          /\ c.event = "summary"
          /\ \E r \in incidents : r.incident_id = c.incident_id /\ r.summary = "complete"
    /\ Cardinality(incidents) = 1
    /\ Cardinality(published) = 1
    /\ wk.calls = 2
    /\ summary_q = << >>
    /\ task.summary_worker.pc = "dequeue"
    /\ wk.enq.incident_id \notin { r.incident_id : r \in incidents }


----------------------------------------------------------------------------
(* Claims about the Forge client, checked under SpecClient *)

\* C25: every request ends after 1 to 8 attempts, by returning the body of a
\* 200 response or by raising; it returns at the first 200, raises at once
\* and makes no further attempt on a status other than 200, 403, 429 and 5xx,
\* and raises after the 8th attempt when every attempt got 403, 429 or 5xx.
C25_RequestOutcome ==
    /\ client.attempts <= Attempts
    /\ (client.pos = "idle" /\ client.requests > 0) =>
          /\ client.attempts >= 1
          /\ client.result \in {"returned", "raised"}
          /\ client.result = "returned" <=> client.last = 200
    /\ (client.last # 0 /\ client.last # 200 /\ ~retryable(client.last)
            /\ client.attempts > 0) =>
          client.pos = "idle" /\ client.result = "raised"
    /\ (client.pos = "idle" /\ client.attempts = Attempts /\ retryable(client.last)) =>
          client.result = "raised"

\* C26: a connection error or timeout of an attempt is retried like a 429 or
\* 5xx response and reaches the caller only when the 8 attempts are used up.
C26_NetworkRetried ==
    (client.result = "raised" /\ client.last = 0) => client.attempts = Attempts


----------------------------------------------------------------------------
(* Claims about RepoScheduler, checked under SpecSched *)

\* C27: under a clock that never goes back, every batch next_batch returns
\* holds at most max_repos repos, no repo twice, and two calls that returned
\* the same repo were made at times at least min_interval seconds apart.
C27_BatchSpacing ==
    /\ Len(sched.batch) <= sched.max_repos
    /\ \A i, j \in DOMAIN sched.batch : i # j => sched.batch[i] # sched.batch[j]
    /\ \A r \in RepoNames :
          \A i, j \in DOMAIN sched.returned[r] :
              i < j => sched.returned[r][j] - sched.returned[r][i] >= sched.min_interval

\* a repo was returned by two calls of a scheduler with a positive
\* min_interval, the second time in a batch that is full
C27_Witness ==
    /\ sched.min_interval > 0
    /\ Len(sched.batch) = 2 /\ sched.max_repos = 2
    /\ \E r \in RepoNames :
          /\ Len(sched.returned[r]) = 2
          /\ \E i \in DOMAIN sched.batch : sched.batch[i] = r


----------------------------------------------------------------------------
(* Claims about the recent-repo buffer, checked under SpecRecent *)

\* C28: after every add_recent_repo call the buffer holds at most 500
\* entries; a name that is empty, None or without "/" leaves it as it was;
\* any other name is appended, and when that makes the buffer longer than
\* 500 its 250 oldest entries are removed, the others staying in their order.
C28_RecentBuffer ==
    /\ Len(RECENT_REPOS) <= 500
    /\ IF recent_call.repo_full_name = NULL \/ recent_call.repo_full_name \in Slashless
       THEN RECENT_REPOS = recent_call.before
       ELSE LET appended == recent_call.before \o <<recent_call.repo_full_name>>
            IN  IF Len(appended) > 500
                THEN /\ Len(RECENT_REPOS) = Len(appended) - 250
                     /\ \A i \in DOMAIN RECENT_REPOS : RECENT_REPOS[i] = appended[i + 250]
                ELSE RECENT_REPOS = appended

\* the latest call found 500 entries and a valid name made the buffer overflow
C28_Witness ==
    /\ Len(recent_call.before) = 500
    /\ recent_call.repo_full_name \in { RecentNames[i] : i \in DOMAIN RecentNames }
    /\ Len(RECENT_REPOS) = 251
    /\ RECENT_REPOS[251] = recent_call.repo_full_name


----------------------------------------------------------------------------
(* Claims about the columns of a stored row, checked under SpecColumns *)

\* the columns insert_incident writes and no later statement names
SameInserted(q, r) ==
    /\ q.incident_id = r.incident_id
    /\ q.kind = r.kind /\ q.run_id = r.run_id /\ q.dedupe_key = r.dedupe_key
    /\ q.mentions = r.mentions
    /\ q.scope = r.scope /\ q.surface = r.surface /\ q.actor = r.actor

\* the columns of the summary
SameSummary(q, r) ==
    /\ q.summary = r.summary
    /\ q.why_this_fired = r.why_this_fired
    /\ q.risk_trajectory = r.risk_trajectory
    /\ q.risk_trajectory_reason = r.risk_trajectory_reason

\* C31: no write to the store after the insertion of a row (set_summary,
\* _store_summary, set_enrichment, a repeated insert of its incident) changes
\* its scope, surface or actor or any other column written at insertion; a
\* write changes at most one row, and of that row either columns of the
\* summary or the enrichment column, never both, and adds or removes no row.
C31_DerivedFixed ==
    [][ /\ \A r \in incidents : \E q \in incidents' : SameInserted(q, r)
        /\ Cardinality(incidents') = Cardinality(incidents)
        /\ Cardinality(incidents \ incidents') <= 1
        /\ \A r \in incidents \ incidents' :
              \A q \in incidents' :
                  q.incident_id = r.incident_id =>
                      \/ SameSummary(q, r)
                      \/ q.enrichment = r.enrichment ]_vars

\* a row of surface dependencies whose summary was written by set_summary and
\* whose enrichment was written too, after the insert of its incident was
\* repeated
C31_Witness ==
    /\ ins # NoInsert
    /\ \E r \in incidents :
          /\ r.incident_id = ins.inc.incident_id
          /\ r.surface = "dependencies" /\ r.scope = "ecosystem"
          /\ r.why_this_fired # NULL
          /\ r.enrichment # NULL
    /\ \E r \in incidents : r.summary # NULL /\ r.why_this_fired = NULL


----------------------------------------------------------------------------
(* Claims about the derived fields, checked under SpecFields *)

\* C32: the scope is ecosystem for an ecosystem_incident and repo for any
\* other kind.  The surface is credentials for ghostaction_risk and
\* personalized_secret_exfiltration whatever the tags; else dependencies for
\* an ecosystem_incident or when a tag holds npm or dependency in any case;
\* else ops for workflow_failure; else automation.  The type of the actor is
\* user, bot, org or unknown, and is_bot is true whenever the login ends in
\* [bot] or the type is bot.
C32_DerivedFields ==
    fields.done =>
        LET named == \E i \in DOMAIN fields.tags : \E j \in DOMAIN fields.tags[i] :
                        fields.tags[i][j] \in {"npm", "NPM", "dependency", "Dependency"}
            login == fields.actor.login
        IN  /\ fields.scope = IF fields.kind = "ecosystem_incident" THEN "ecosystem"
                              ELSE "repo"
            /\ fields.surface =
                  IF fields.kind \in {"ghostaction_risk", "personalized_secret_exfiltration"}
                  THEN "credentials"
                  ELSE IF fields.kind = "ecosystem_incident" \/ named THEN "dependencies"
                  ELSE IF fields.kind = "workflow_failure" THEN "ops"
                  ELSE "automation"
            /\ fields.actor.type \in {"user", "bot", "org", "unknown"}
            /\ login[Len(login)] = "[bot]" => fields.actor.is_bot
            /\ fields.actor.type = "bot" => fields.actor.is_bot

\* a ghostaction_risk whose tags name npm got the surface credentials, and a
\* login ending in [bot] with no actor type made a bot of unknown type
C32_Witness ==
    /\ fields.done
    /\ fields.kind = "ghostaction_risk"
    /\ \E i \in DOMAIN fields.tags : fields.tags[i] = <<"npm">>
    /\ fields.surface = "credentials"
    /\ fields.evidence.actor = <<"dependabot", "[bot]">>
    /\ fields.actor.is_bot /\ fields.actor.type = "unknown"


----------------------------------------------------------------------------
(* Claims about the row and the card of a summary, checked under           *)
(* SpecSummaryWorker                                                       *)

\* C40: once the summary worker has published its card for an incident, the
\* stored row of the incident, which GET /summary serves column by column,
\* holds in why_this_fired, risk_trajectory and risk_trajectory_reason the
\* values the card carries (the card of the summary the row holds).
C40_RowMatchesCard ==
    \A c \in published :
        c.event = "summary" =>
            \A r \in incidents :
                (r.incident_id = c.incident_id /\ r.summary = c.summary) =>
                    /\ r.why_this_fired = summary_get(c.summary, "why_this_fired")
                    /\ r.risk_trajectory = summary_get(c.summary, "risk_trajectory")
                    /\ r.risk_trajectory_reason =
                          summary_get(c.summary, "risk_trajectory_reason")

\* C33: whenever the run checker holds a non-empty log list of a failing run
\* of which a plugin matches an entry, and is done with that list, the
\* correlator's ingest has been called for it (a call is appended to results)
C33_LogsRouted ==
    [][ ( /\ task.check_runs.pc = "signals"
          /\ \E i \in DOMAIN task.check_runs.logs : task.check_runs.logs[i]
          /\ task'.check_runs.pc # "signals" )
        => Len(results') > Len(results) ]_vars

\* C38: a follow-up card of an incident (the summary worker's card, the
\* enrichment worker's incident_enriched card) is handed to publish only after
\* the initial card of that incident_id
C38_InitialCardFirst ==
    \A c \in published :
        c.event # "incident" => Card(c.incident_id, "incident") \in published

\* C34: with a store that raises no error, the first run of run_replay_fixtures
\* on an empty store and a fresh correlator (window 60, min_repos 5,
\* min_owners 3, cooldown 30) adds exactly one ecosystem_incident row and one
\* personalized_secret_exfiltration row, publishes the initial card of each
\* and returns 2; a second run started within the cooldown of the first adds
\* no row and returns 0.
KindsAdded(d) == { x[2] : x \in d.rows \ d.rows0 }

C34_ReplayTwice ==
    LET d == task.replay.done
    IN  /\ (Len(d) >= 1 /\ d[1].errors = 0) =>
              /\ d[1].ret = 2
              /\ Cardinality(d[1].rows \ d[1].rows0) = 2
              /\ KindsAdded(d[1]) = {"ecosystem_incident", "personalized_secret_exfiltration"}
              /\ d[1].cards \ d[1].cards0 = { x[1] : x \in d[1].rows }
        /\ (Len(d) >= 2 /\ d[2].errors = 0 /\ d[2].at - d[1].at < cfg.cooldown) =>
              /\ d[2].ret = 0
              /\ d[2].rows = d[2].rows0
              /\ d[2].cards = d[2].cards0

C34_Witness ==
    LET d == task.replay.done
    IN  /\ Len(d) = 2
        /\ d[2].errors = 0
        /\ d[2].at - d[1].at < cfg.cooldown
        /\ d[1].rows0 = {}
        /\ d[1].ret = 2
        /\ d[2].ret = 0

\* C36: whatever the form of occurred_at (missing, empty, with Z, with an
\* offset, without a timezone, unparseable), no ingest call raises, neither
\* the call that takes the value nor a later call of the same signature
C36_IngestNeverRaises == ret # Raised

\* C39: any two bundles the correlator returned for one signature carry
\* different dedupe_key values, and the incident built from the later one does
\* not conflict in the store with the row of the earlier one
BundleAt(s, t) == build_incident(s, << >>, t, cfg)

C39_DistinctBuckets ==
    \A s \in Signatures : \A i, j \in DOMAIN emits[s] :
        i < j =>
           /\ Bucket(emits[s][i], cfg) # Bucket(emits[s][j], cfg)
           /\ BundleAt(s, emits[s][i]).dedupe_key # BundleAt(s, emits[s][j]).dedupe_key
           /\ ~Conflicts({Row(ecosystem_incident(BundleAt(s, emits[s][i])))},
                         ecosystem_incident(BundleAt(s, emits[s][j])))

C39_Witness ==
    /\ ret.bundle
    /\ Len(emits[ret.signature]) = 2
    /\ cfg.cooldown >= 1

\* C35: with several tasks driving the pipeline on the shared correlator, an
\* ingest is one step: _last_emit of a signature changes only in the step that
\* also prunes and appends its entries and returns the bundle, and the tasks
\* together get at most one bundle per signature per cooldown
C35_IngestAtomic ==
    /\ [](\A s \in Signatures : \A i, j \in DOMAIN emits[s] :
             i < j => emits[s][j] - emits[s][i] >= cfg.cooldown)
    /\ [][ \A s \in Signatures :
             last_emit'[s] # last_emit[s] =>
                /\ entries'[s] = Append(Prune(entries[s], now - cfg.window),
                                        entries'[s][Len(entries'[s])])
                /\ ret'.bundle /\ ret'.signature = s
                /\ Len(results') = Len(results) + 1 ]_vars

\* one task is suspended in insert_incident with its bundle while the other
\* task has made the next ingest of that signature and got none
C35_Witness ==
    \E k, o \in ReplayTasks :
        /\ k # o
        /\ task[k].pc = "insert"
        /\ task[o].pc = "pipeline"
        /\ task[o].cnt.bundles = 0
        /\ ~ret.bundle
        /\ ret # Raised
        /\ Len(results) >= 2
        /\ results[Len(results) - 1]
        /\ \E s \in Signatures : call.signature = s /\ Len(emits[s]) = 1

\* C37: when a refused token ends the loop over the jobs, fetch_run_logs
\* returns the list gathered so far and that list is cached under run_id; a
\* call for a cached run_id returns the cached list and takes no token, issues
\* no Forge call and leaves the cache as it is, so no Forge call is ever under
\* way for a run_id that is cached
C37_PartialCached ==
    /\ [](fetcher.last.broke =>
             /\ fetcher.last.result = "list"
             /\ \E i \in DOMAIN fetcher.cache : fetcher.cache[i] = fetcher.last.run_id
             /\ fetcher.stored[fetcher.last.run_id] = fetcher.last.logs
             /\ fetcher.last.run_id \in fetcher.partial)
    /\ [](fetcher.pos # "idle" =>
             ~\E i \in DOMAIN fetcher.cache : fetcher.cache[i] = fetcher.run_id)
    /\ [][ ( /\ fetcher'.fetches = fetcher.fetches + 1
             /\ \E i \in DOMAIN fetcher.cache : fetcher.cache[i] = fetcher'.run_id )
           => /\ fetcher'.last.hit
              /\ fetcher'.last.result = "list"
              /\ fetcher'.last.logs = fetcher.stored[fetcher'.run_id]
              /\ fetcher'.pos = "idle"
              /\ fetcher'.api_calls = fetcher.api_calls
              /\ fetcher'.tokens = fetcher.tokens
              /\ fetcher'.timestamps = fetcher.timestamps
              /\ fetcher'.cache = fetcher.cache
              /\ fetcher'.stored = fetcher.stored ]_vars

\* a call answered from the cache with a list of one log that a break had cut
\* short, while the bucket has room again
C37_Witness ==
    /\ fetcher.last.hit
    /\ fetcher.last.run_id \in fetcher.partial
    /\ Len(fetcher.last.logs) = 1
    /\ Len(popleft_expired(fetcher.timestamps, fetcher.clock)) < fetcher.per_minute

====
